---------------------------- MODULE Spec2Model ----------------------------
(***************************************************************************)
(* State-replication core of the rosco quiz board (src/src/App.tsx).       *)
(*                                                                         *)
(* One App component instance (one browser tab, one RoomSession) is        *)
(* modelled.  Its React state, its refs and the resources its effects      *)
(* hold are the variables.  A handler (UI callback, interval callback,     *)
(* transport callback, promise continuation) is one action: all its        *)
(* setState calls are applied together (React batches them) and the names  *)
(* of the state hooks whose value changed are left in `changed`.  The      *)
(* effects of the resulting commit are one further action, Effects, which  *)
(* reads the committed state as its closure.  A handler may run before the *)
(* effects of the last commit are flushed: React then runs them, with the  *)
(* closure of that commit, before it renders the handler's calls, and what *)
(* they setState is queued behind those calls.                             *)
(*                                                                         *)
(* Indices are 0-based as in the source: items[k] of the source is         *)
(* items[k + 1] here.                                                      *)
(***************************************************************************)
EXTENDS Integers, Sequences, FiniteSets, TLC

VARIABLES
  role,            \* "owner" | "player"                      (useState, l.69)
  roomId,          \* room identifier                         (useState, l.72)
  supabase,        \* TRUE iff the imported realtime client is non-null (l.21)
  bc,              \* TRUE iff the window has BroadcastChannel: bc is non-null (l.57-60)
  setItemThrows,   \* TRUE iff localStorage.setItem throws (quota, private mode)
  mounted,         \* "constructed" | "mounted" | "unmounted"
  items,           \* PlayItem[]                              (l.108)
  idx,             \* current index, 0-based                  (l.109)
  running,         \* l.110
  finished,        \* l.111
  seconds,         \* l.120
  defaultSeconds,  \* l.114
  joined,          \* l.226
  roomChannelRef,  \* TRUE iff roomChannelRef.current is a channel (l.225)
  chan,            \* "none" | "joining" | "subscribed" | "failed" | "removed"
  sinceLastSent,   \* performance.now() - lastSentRef.current, saturated at THROTTLE_MS
  timerOn,         \* TRUE iff the countdown interval of l.212 is registered
  listeners,       \* registered receive listeners per transport
  changed,         \* state hooks the last commit changed, while its effects are pending
  lastOp,          \* the handler or effect flush that ran last
  lastEnv,         \* the inbound message the last receive handler was given
  out,             \* what the last step sent, in order
  flushed,         \* TRUE iff the last step ran the pending effects of a commit
  snack,           \* the notice the last step raised with setSnack, "" if none (l.112)
  loads,           \* the loads in flight: calls of loadFromUrl / loadFromFile at their await
  \* the proxy function of api/fetch-json.ts, one request at a time
  pc,              \* where the handler is: "idle", or the await it is at, or "done"
  queryUrl,        \* req.query.url: the values of the url parameter, in order
  upstream,        \* r, the settled upstream response (l.13)
  fetches,         \* calls of fetch made for the request
  responses        \* what the handler sent for the request, in order

game == <<items, idx, seconds, running, finished>>
config == <<role, roomId, supabase, bc, setItemThrows>>
app == <<config, mounted, items, idx, running, finished, seconds,
         defaultSeconds, joined, roomChannelRef, chan, sinceLastSent, timerOn,
         listeners, changed, lastOp, lastEnv, out, flushed, snack, loads>>
proxy == <<pc, queryUrl, upstream, fetches, responses>>
vars == <<app, proxy>>

----------------------------------------------------------------------------
(* Bounds of the model *)

MaxItems == 3        \* length of the question bank the owner loads
MaxSeconds == 2      \* timer adjustments that would exceed it are not taken
TimeStep == 60       \* milliseconds that pass in one Elapse step
MaxLoads == 1        \* loads in flight at a time

(* Program constants *)

THROTTLE_MS == 120   \* l.274
MAX_TIMER == 3600    \* l.365, 60 * 60

Rooms == {"X", "Y"}
Statuses == {"pendiente", "bien", "mal", "pasada"}
Rules == <<"empieza", "contiene", "termina">>
CHANNEL == "rosco-sync"

Min(a, b) == IF a < b THEN a ELSE b
Max(a, b) == IF a > b THEN a ELSE b

SeqRange(s) == {s[i] : i \in 1..Len(s)}


----------------------------------------------------------------------------
(* Question banks: the records a load may be given *)

Letters == <<"a", "b", "c", "d", "e">>
RawRules == <<"empieza", "contiene", "zzz", "termina", "contiene">>

\* String.prototype.toUpperCase on the letters used
toUpperCase(l) ==
  CASE l = "a" -> "A" [] l = "b" -> "B" [] l = "c" -> "C"
    [] l = "d" -> "D" [] l = "e" -> "E" [] OTHER -> l

RawRecord(i) ==
  [letter |-> Letters[i], rule |-> RawRules[i],
   prompt |-> "q", answer |-> Letters[i]]

\* a record that fails the ingestion filter: null, or one with an empty field
BadRecord == [letter |-> "", rule |-> "empieza", prompt |-> "q", answer |-> "x"]

GoodBank == [i \in 1..MaxItems |-> RawRecord(i)]
MixedBank == <<BadRecord, RawRecord(3)>>
RawBanks == {GoodBank, MixedBank, <<BadRecord>>, <<>>}

\* the name a step record gives a bank
BankName(b) ==
  CASE b = GoodBank -> "good"
    [] b = MixedBank -> "mixed"
    [] b = <<BadRecord>> -> "bad"
    [] OTHER -> "empty"

\* What fetch/res.json or file.text/JSON.parse hands to the mapping code
LoadResults ==
  {[name |-> "throw", kind |-> "throw", data |-> <<>>],
   [name |-> "notArray", kind |-> "notArray", data |-> <<>>]}
    \cup {[name |-> BankName(b), kind |-> "array", data |-> b] : b \in RawBanks}

\* the filter with the test of one field left out
KeepsWithoutLetter(d) == d.rule # "" /\ d.prompt # "" /\ d.answer # ""

\* the filter of l.137 / l.173: d && d.letter && d.rule && d.prompt && d.answer
Keeps(d) == d.letter # "" /\ d.rule # "" /\ d.prompt # "" /\ d.answer # ""

\* the map of l.138-144 / l.174-180
MapItem(d) ==
  [letter |-> toUpperCase(d.letter),
   rule   |-> IF d.rule \in SeqRange(Rules) THEN d.rule ELSE "empieza",
   prompt |-> d.prompt,
   answer |-> d.answer,
   status |-> "pendiente"]

RECURSIVE FilterMap(_)
FilterMap(data) ==
  IF data = <<>> THEN <<>>
  ELSE (IF Keeps(Head(data)) THEN <<MapItem(Head(data))>> ELSE <<>>)
         \o FilterMap(Tail(data))

\* l.136-144: (Array.isArray(data) ? data : []).filter(...).map(...)
Mapped(res) == IF res.kind = "array" THEN FilterMap(res.data) ELSE <<>>

\* l.53, l.157: FALLBACK_DBZ.map(...) with FALLBACK_DBZ = []
FALLBACK_DBZ == <<>>

----------------------------------------------------------------------------
(* Time helpers *)

\* l.89
clamp(n, min, max) == Min(max, Max(min, n))

\* JavaScript's % : the sign of the result is the sign of the dividend
JsRem(a, b) == IF a >= 0 THEN a % b ELSE -((-a) % b)

(* A timer text is the sequence of its ":"-separated parts; a part is what  *)
(* Number() makes of it: a finite number, or not (NaN).  The empty         *)
(* sequence is the text that trims to "".                                  *)
Num(v) == [fin |-> TRUE, v |-> v]
NaN == [fin |-> FALSE, v |-> 0]

\* l.90: `${Math.floor(s / 60)}:${String(s % 60).padStart(2, "0")}`
formatSeconds(s) == <<Num(s \div 60), Num(JsRem(s, 60))>>

\* l.91-105; Null stands for the null result
Null == [fin |-> FALSE, v |-> -1]
parseMmSs(str) ==
  IF str = <<>> THEN Null
  ELSE IF Len(str) = 1
    THEN (IF str[1].fin THEN Num(str[1].v) ELSE Null)
    ELSE (IF str[1].fin /\ str[2].fin /\ str[2].v >= 0 /\ str[2].v < 60
            THEN Num(str[1].v * 60 + str[2].v) ELSE Null)

\* the texts the owner types into the timer field
TimerInputs == {<<>>, <<NaN>>, <<Num(-10)>>, <<Num(0), Num(2)>>, <<Num(0), Num(60)>>}

\* the buttons of l.443-445
AdjustDeltas == {-10, 10, 60}

\* values of localStorage "rosco-default-seconds" at start-up (l.116)
InitDefaults == {1}

----------------------------------------------------------------------------
(* Game logic *)

\* l.336-344, the loop unrolled by recursion on the counter c
RECURSIVE nextIndexLoop(_, _, _, _)
nextIndexLoop(its, from, j, c) ==
  IF c >= Len(its) THEN from
  ELSE IF its[j + 1].status = "pendiente" \/ its[j + 1].status = "pasada" THEN j
  ELSE nextIndexLoop(its, from, (j + 1) % Len(its), c + 1)

\* nextIndex without the wrap-around of l.338
nextIndexNoWrap(its, from) == IF Len(its) = 0 THEN 0 ELSE from + 1

\* nextIndex that stops only at "pendiente", passing over "pasada"
RECURSIVE nextIndexPendingLoop(_, _, _, _)
nextIndexPendingLoop(its, from, j, c) ==
  IF c >= Len(its) THEN from
  ELSE IF its[j + 1].status = "pendiente" THEN j
  ELSE nextIndexPendingLoop(its, from, (j + 1) % Len(its), c + 1)
nextIndexPendingOnly(its, from) ==
  IF Len(its) = 0 THEN 0
  ELSE nextIndexPendingLoop(its, from, (from + 1) % Len(its), 0)

nextIndex(its, from) ==
  IF Len(its) = 0 THEN 0
  ELSE nextIndexLoop(its, from, (from + 1) % Len(its), 0)

\* l.333-334
score(its) == Cardinality({i \in 1..Len(its) : its[i].status = "bien"})
wrong(its) == Cardinality({i \in 1..Len(its) : its[i].status = "mal"})

----------------------------------------------------------------------------
(* Messages *)

\* the five replicated fields of a message m
Payload(m) ==
  [items |-> m.items, idx |-> m.idx, seconds |-> m.seconds,
   running |-> m.running, finished |-> m.finished]

\* the five replicated fields of this session
Snapshot ==
  [items |-> items, idx |-> idx, seconds |-> seconds,
   running |-> running, finished |-> finished]

Msg(type, room, p) ==
  [type |-> type, roomId |-> room, items |-> p.items, idx |-> p.idx,
   seconds |-> p.seconds, running |-> p.running, finished |-> p.finished]

\* the local payload without its roomId field
LocalPayloadNoRoom == Msg("state", "", Snapshot)

\* l.264: { type: "state", items, idx, seconds, running, finished, roomId }
LocalPayload == Msg("state", roomId, Snapshot)

\* l.277-281: event "state" on the channel of topic roomId (l.233); the
\* payload itself carries no roomId
RealtimePayload == Msg("state", "", Snapshot)

\* an entry of `out`: the effect that sent, the transport, its channel name,
\* storage key or topic, and the message
Sent(by, via, key, m) == [by |-> by, via |-> via, key |-> key, m |-> m]

\* Inbound messages: states another session may have published
ItemsOf(bank) == FilterMap(bank)
PayA ==
  [items |-> ItemsOf(GoodBank), idx |-> 0, seconds |-> 2,
   running |-> FALSE, finished |-> FALSE]
PayB ==
  [items |-> [ItemsOf(GoodBank) EXCEPT ![1].status = "bien"], idx |-> 1,
   seconds |-> 1, running |-> TRUE, finished |-> FALSE]
\* a payload no owner state corresponds to: the index is past the last item
\* and the game is both running and finished
PayC ==
  [items |-> ItemsOf(GoodBank), idx |-> MaxItems, seconds |-> 0,
   running |-> TRUE, finished |-> TRUE]
InPayloads == {PayA, PayB, PayC}

\* roomId "" is a message without a roomId
InMsgs ==
  {Msg("state", r, p) : r \in Rooms \cup {""}, p \in InPayloads}
    \cup {Msg("other", r, PayB) : r \in Rooms}

\* what a receive handler is given: the transport, the storage key or
\* channel, whether the data is there (non-null, parsable), and the data
Env(via, key, present, m) == [via |-> via, key |-> key, present |-> present, m |-> m]
NoEnv == Env("none", "", FALSE, Msg("", "", PayA))

----------------------------------------------------------------------------
(* Initial state: the first render, before its effects run *)

NoListeners == [bc |-> 0, storage |-> 0, net |-> 0]

\* the proxy has fetched nothing
NoUpstream == [throws |-> FALSE, status |-> 0, ct |-> "", text |-> "", readFails |-> FALSE]

Init ==
  /\ role \in {"owner", "player"}            \* l.69-71
  /\ roomId \in Rooms                        \* l.72
  /\ supabase \in BOOLEAN
  /\ bc \in BOOLEAN                          \* l.57-60
  /\ setItemThrows \in BOOLEAN
  /\ mounted = "constructed"
  /\ items = <<>>
  /\ idx = 0
  /\ running = FALSE
  /\ finished = FALSE
  /\ defaultSeconds \in InitDefaults         \* l.114-118
  /\ seconds = defaultSeconds                \* l.120
  /\ joined = FALSE
  /\ roomChannelRef = FALSE
  /\ chan = "none"
  /\ sinceLastSent = 0                       \* lastSentRef = 0 at time origin
  /\ timerOn = FALSE
  /\ listeners = NoListeners
  /\ changed = {}
  /\ lastOp = [op |-> "init", arg |-> ""]
  /\ lastEnv = NoEnv
  /\ snack = ""
  /\ out = <<>>
  /\ flushed = FALSE
  /\ loads = {}
  /\ pc = "idle"
  /\ queryUrl = <<>>
  /\ upstream = NoUpstream
  /\ fetches = 0
  /\ responses = <<>>

\* the record kept of the step that ran last
Op(name, arg) == [op |-> name, arg |-> arg]

\* names of the hooks a setState call changes: a primitive changes when its
\* value differs (Object.is), a fresh array always does
Diff(name, old, new) == IF old = new THEN {} ELSE {name}

\* a handler may run: the component is mounted; the effects of its last
\* commit may still be pending
Ready == mounted = "mounted"

----------------------------------------------------------------------------
(* Outbound path: l.262-288 *)

\* l.263-267: bc?.postMessage, a post when bc is non-null, then the
\* localStorage write (whose ts field no reader uses), which writes nothing
\* when setItem throws
broadcastLocal(by) ==
  (IF bc THEN <<Sent(by, "bc", CHANNEL, LocalPayload)>> ELSE <<>>)
    \o (IF setItemThrows THEN <<>>
                          ELSE <<Sent(by, "storage", "rosco-sync", LocalPayload)>>)

\* the gate of the network leg without the joined test
RealtimeAcceptedUnjoined(since) ==
  /\ roomChannelRef
  /\ ~(since < THROTTLE_MS)

\* l.272-274: the gate of the network leg
RealtimeAccepted(since) ==
  /\ roomChannelRef
  /\ joined
  /\ ~(since < THROTTLE_MS)

\* broadcastRealtime without the assignment of l.275
broadcastRealtimeNoStamp(by, since) ==
  IF RealtimeAccepted(since)
    THEN [msgs |-> <<Sent(by, "net", roomId, RealtimePayload)>>, since |-> since]
    ELSE [msgs |-> <<>>, since |-> since]

\* l.271-282: the messages sent and the new time since the last send
broadcastRealtime(by, since) ==
  IF RealtimeAccepted(since)
    THEN [msgs |-> <<Sent(by, "net", roomId, RealtimePayload)>>, since |-> 0]
    ELSE [msgs |-> <<>>, since |-> since]

\* l.284-288
broadcastAll(by, since) ==
  IF role # "owner" THEN [msgs |-> <<>>, since |-> since]
  ELSE LET r == broadcastRealtime(by, since)
       IN [msgs |-> broadcastLocal(by) \o r.msgs, since |-> r.since]

NoSend(since) == [msgs |-> <<>>, since |-> since]

----------------------------------------------------------------------------
(* Effects *)

\* l.211: the countdown interval exists after the timer effect ran
TimerWanted == role = "owner" /\ running /\ ~finished

\* l.217
ExpiryFires == seconds = 0 /\ running /\ role = "owner"

\* l.292
PublishFires == role = "owner" /\ joined

\* the publish effect's list without the two flags
PublishDepsNoFlags == {"items", "idx", "seconds", "joined"}

\* dependency lists of l.214, l.222, l.294
TimerDeps == {"running", "finished"}
ExpiryDeps == {"seconds", "running"}
PublishDeps == {"items", "idx", "seconds", "running", "finished", "joined"}

\* l.234, l.309, l.325: the receive listeners the subscription effects
\* register
Subscribed ==
  [bc      |-> IF role = "player" /\ bc THEN 1 ELSE 0,
   storage |-> IF role = "player" THEN 1 ELSE 0,
   net     |-> IF supabase THEN 1 ELSE 0]

\* subscription effects that run after every commit and remove nothing
ResubscribedEveryCommit ==
  [t \in DOMAIN listeners |-> listeners[t] + Subscribed[t]]

\* l.260, l.330: the subscription effects depend on roomId and role, which
\* no setState call changes, so a later commit does not run them again
SubscriptionDeps == {"roomId", "role"}
Resubscribed ==
  IF changed \cap SubscriptionDeps = {} THEN listeners ELSE Subscribed

\* the call of an async load function up to its first await (l.132, l.169):
\* the continuation closes over the defaultSeconds of the render that made
\* the call
Load(fn, silent) == [fn |-> fn, silent |-> silent, defaultSeconds |-> defaultSeconds]

\* The first effect flush (mount): l.196-207, l.210-214, l.216-222,
\* l.229-260, l.291-294, l.297-330.  json: the address has a json parameter,
\* and the owner's mount effect calls loadFromUrl(finalUrl, true) (l.204).
Mount(json) ==
  /\ mounted = "constructed"
  /\ loads' = IF json /\ role = "owner" THEN {Load("loadFromUrl", TRUE)} ELSE {}
  /\ mounted' = "mounted"
  /\ timerOn' = TimerWanted
  /\ roomChannelRef' = supabase
  /\ chan' = IF supabase THEN "joining" ELSE "none"
  /\ joined' = IF supabase THEN FALSE ELSE joined
  /\ listeners' = Subscribed
  /\ LET e == IF ExpiryFires THEN broadcastAll("expiry", sinceLastSent)
                             ELSE NoSend(sinceLastSent)
         b == IF PublishFires THEN broadcastAll("publish", e.since)
                              ELSE NoSend(e.since)
     IN /\ running' = IF ExpiryFires THEN FALSE ELSE running
        /\ finished' = IF ExpiryFires THEN TRUE ELSE finished
        /\ out' = e.msgs \o b.msgs
        /\ flushed' = TRUE
        /\ sinceLastSent' = b.since
        /\ changed' = Diff("running", running, running')
                        \cup Diff("finished", finished, finished')
  /\ lastOp' = Op("mount", "")
  /\ lastEnv' = NoEnv
  /\ snack' = ""
  /\ UNCHANGED proxy
  /\ UNCHANGED <<config, items, idx, seconds, defaultSeconds>>

\* an effect flush whose publish effect posts on the local transports in a
\* session of either role
EffectsPublishAnyRole ==
  /\ mounted = "mounted"
  /\ changed # {}
  /\ timerOn' = IF changed \cap TimerDeps # {} THEN TimerWanted ELSE timerOn
  /\ LET publish == changed \cap PublishDeps # {} /\ joined
     IN /\ out' = IF publish THEN broadcastLocal("publish") ELSE <<>>
        /\ changed' = {}
        /\ flushed' = TRUE
  /\ lastOp' = Op("effects", lastOp.op)
  /\ lastEnv' = NoEnv
  /\ snack' = ""
  /\ UNCHANGED <<loads, proxy>>
  /\ UNCHANGED <<config, mounted, game, defaultSeconds, joined, roomChannelRef,
                 chan, listeners, sinceLastSent>>

\* The effects of a later commit, in source order, each when one of its
\* dependencies changed; the committed state is their closure.  The record
\* of the step keeps the name of the step whose commit is flushed.
Effects ==
  /\ mounted = "mounted"
  /\ changed # {}
  /\ timerOn' = IF changed \cap TimerDeps # {} THEN TimerWanted ELSE timerOn
  /\ LET expiry == changed \cap ExpiryDeps # {} /\ ExpiryFires
         publish == changed \cap PublishDeps # {} /\ PublishFires
         e == IF expiry THEN broadcastAll("expiry", sinceLastSent)
                        ELSE NoSend(sinceLastSent)
         b == IF publish THEN broadcastAll("publish", e.since)
                         ELSE NoSend(e.since)
     IN /\ running' = IF expiry THEN FALSE ELSE running
        /\ finished' = IF expiry THEN TRUE ELSE finished
        /\ out' = e.msgs \o b.msgs
        /\ flushed' = TRUE
        /\ sinceLastSent' = b.since
        /\ changed' = Diff("running", running, running')
                        \cup Diff("finished", finished, finished')
  /\ listeners' = Resubscribed
  /\ lastOp' = Op("effects", lastOp.op)
  /\ lastEnv' = NoEnv
  /\ snack' = ""
  /\ UNCHANGED <<loads, proxy>>
  /\ UNCHANGED <<config, mounted, items, idx, seconds, defaultSeconds, joined,
                 roomChannelRef, chan>>

\* the cleanups may run: at unmount, which drops the effects still pending,
\* and again on a component that is unmounted already
CleanupsMayRun == mounted \in {"mounted", "unmounted"}

\* cleanups that count the listeners down instead of removing the handler
\* they registered
TeardownCountingDown ==
  /\ CleanupsMayRun
  /\ mounted' = "unmounted"
  /\ timerOn' = FALSE
  /\ joined' = FALSE
  /\ roomChannelRef' = FALSE
  /\ chan' = IF chan = "none" THEN "none" ELSE "removed"
  /\ listeners' =
       [bc      |-> listeners.bc - (IF role = "player" THEN 1 ELSE 0),
        storage |-> listeners.storage - (IF role = "player" THEN 1 ELSE 0),
        net     |-> listeners.net - (IF supabase THEN 1 ELSE 0)]
  /\ lastOp' = Op("teardown", IF mounted = "unmounted" THEN "again" ELSE "")
  /\ lastEnv' = NoEnv
  /\ snack' = ""
  /\ UNCHANGED <<loads, proxy>>
  /\ out' = <<>>
  /\ flushed' = FALSE
  /\ UNCHANGED <<config, game, defaultSeconds, sinceLastSent, changed>>

\* cleanups without the clearInterval of l.213
TeardownKeepsInterval ==
  /\ CleanupsMayRun
  /\ mounted' = "unmounted"
  /\ joined' = FALSE
  /\ roomChannelRef' = FALSE
  /\ chan' = IF chan = "none" THEN "none" ELSE "removed"
  /\ listeners' = NoListeners
  /\ lastOp' = Op("teardown", IF mounted = "unmounted" THEN "again" ELSE "")
  /\ lastEnv' = NoEnv
  /\ snack' = ""
  /\ UNCHANGED <<loads, proxy>>
  /\ out' = <<>>
  /\ flushed' = FALSE
  /\ UNCHANGED <<config, game, defaultSeconds, sinceLastSent, changed, timerOn>>

\* The cleanups of l.213, l.255-259, l.326-329: clearInterval, setJoined(false),
\* the ref set to null, removeChannel and the two removeEventListener calls
\* name the handle they were given, so each has no effect when repeated
Teardown ==
  /\ CleanupsMayRun
  /\ mounted' = "unmounted"
  /\ timerOn' = FALSE
  /\ joined' = FALSE
  /\ roomChannelRef' = FALSE
  /\ chan' = IF chan = "none" THEN "none" ELSE "removed"
  /\ listeners' = NoListeners
  /\ lastOp' = Op("teardown", IF mounted = "unmounted" THEN "again" ELSE "")
  /\ lastEnv' = NoEnv
  /\ snack' = ""
  /\ UNCHANGED <<loads, proxy>>
  /\ out' = <<>>
  /\ flushed' = FALSE
  /\ UNCHANGED <<config, game, defaultSeconds, sinceLastSent, changed>>

----------------------------------------------------------------------------
(* Handlers.  The setState calls of a handler are rendered in one commit, *)
(* after the pending effects of the commit before it have run.           *)

\* a handler runs: what every handler leaves alone
Handler ==
  /\ Ready
  /\ UNCHANGED <<config, mounted, roomChannelRef>>

\* What the setState calls of a handler ask for: the value of every hook
\* after them, whether setItems was given a fresh array, the text given to
\* setSnack ("" when it is not called) and whether that call changes the
\* notice on display.  A handler that calls nothing asks for Same.
Same ==
  [items |-> items, fresh |-> FALSE, idx |-> idx, seconds |-> seconds,
   running |-> running, finished |-> finished, joined |-> joined,
   defaultSeconds |-> defaultSeconds, notice |-> "", posts |-> FALSE]

\* React renders when a call gave a hook another value (Object.is); a call
\* that gives a hook the value it has schedules nothing
Renders(u) ==
  \/ u.fresh
  \/ u.posts
  \/ <<u.idx, u.seconds, u.running, u.finished, u.joined, u.defaultSeconds>>
        # <<idx, seconds, running, finished, joined, defaultSeconds>>

\* the effects of the last commit are still pending when React is to render:
\* it runs them first, with the closure of that commit
Forced(u) == Renders(u) /\ changed # {}

\* l.216-222 in that flush
ForcedExpiry(u) == Forced(u) /\ changed \cap ExpiryDeps # {} /\ ExpiryFires

\* l.291-294 in that flush
ForcedPublish(u) == Forced(u) /\ changed \cap PublishDeps # {} /\ PublishFires

\* what that flush sends, in source order, and the time since the last
\* network send after it
ForcedSends(u) ==
  LET e == IF ForcedExpiry(u) THEN broadcastAll("expiry", sinceLastSent)
                              ELSE NoSend(sinceLastSent)
      b == IF ForcedPublish(u) THEN broadcastAll("publish", e.since)
                               ELSE NoSend(e.since)
  IN [msgs |-> e.msgs \o b.msgs, since |-> b.since]

\* The commit of a handler that asks for u.  The setRunning(false) and
\* setFinished(true) of a pending expiry effect (l.218-219) are queued behind
\* the handler's calls and so decide the two hooks; the timer effect of the
\* pending flush (l.210-214) sets or clears the interval for the closure it
\* has.  `changed` becomes what this commit changed.
Render(u) ==
  /\ items' = u.items
  /\ idx' = u.idx
  /\ seconds' = u.seconds
  /\ running' = IF ForcedExpiry(u) THEN FALSE ELSE u.running
  /\ finished' = IF ForcedExpiry(u) THEN TRUE ELSE u.finished
  /\ joined' = u.joined
  /\ defaultSeconds' = u.defaultSeconds
  /\ timerOn' = IF Forced(u) /\ changed \cap TimerDeps # {} THEN TimerWanted ELSE timerOn
  /\ listeners' = IF Forced(u) THEN Resubscribed ELSE listeners
  /\ sinceLastSent' = ForcedSends(u).since
  /\ changed' =
       IF Renders(u)
         THEN (IF u.fresh THEN {"items"} ELSE {})
                \cup Diff("idx", idx, idx') \cup Diff("seconds", seconds, seconds')
                \cup Diff("running", running, running')
                \cup Diff("finished", finished, finished')
                \cup Diff("joined", joined, joined')
         ELSE changed

\* a step that sets no state
NoRender ==
  UNCHANGED <<game, defaultSeconds, joined, sinceLastSent, timerOn, listeners, changed>>

\* The record of the step of a handler that asks for u, written once chan is
\* assigned.  An owner-side call that returns early, or sets every hook to
\* the value it has, causes no render and leaves no record; a delivery is
\* always recorded.  `out` holds what the pending effects sent.
Trace(name, arg, env, u) ==
  /\ IF env = NoEnv /\ role = "owner" /\ ~Renders(u) /\ chan' = chan
       THEN UNCHANGED <<lastOp, lastEnv, out, flushed, snack>>
       ELSE /\ lastOp' = Op(name, arg)
            /\ lastEnv' = env
            /\ out' = ForcedSends(u).msgs
            /\ flushed' = Forced(u)
            /\ snack' = u.notice
  /\ UNCHANGED proxy

\* the record of a step that is always recorded
TraceNotice(name, arg, u) ==
  /\ lastOp' = Op(name, arg)
  /\ lastEnv' = NoEnv
  /\ out' = ForcedSends(u).msgs
  /\ flushed' = Forced(u)
  /\ snack' = u.notice
  /\ UNCHANGED proxy

\* the setState calls of a handler that sets all five replicated hooks;
\* setItems is given a fresh array
SetGame(its, i, s, r, f) ==
  [Same EXCEPT !.items = its, !.fresh = TRUE, !.idx = i, !.seconds = s,
               !.running = r, !.finished = f]

\* setSnack(notice) on top of the calls u; showing: that text is on display
\* already (l.593 clears it after 3.5 s or when it is closed)
Notice(u, notice, showing) == [u EXCEPT !.notice = notice, !.posts = ~showing]

\* l.346-353
MarkActs == ~(role # "owner" \/ finished \/ Len(items) = 0)
MarkedItems(status) == [items EXCEPT ![idx + 1].status = status]
mark(status) ==
  LET u == IF MarkActs
             THEN [Same EXCEPT !.items = MarkedItems(status), !.fresh = TRUE,
                               !.idx = nextIndex(items, idx)]
             ELSE Same
  IN /\ Handler
     /\ Render(u)
     /\ UNCHANGED <<chan, loads>>
     /\ Trace("mark", status, NoEnv, u)

\* start without setFinished(false)
startKeepsFinished ==
  LET u == [Same EXCEPT !.running = IF role = "owner" THEN TRUE ELSE running]
  IN /\ Handler
     /\ Render(u)
     /\ UNCHANGED <<chan, loads>>
     /\ Trace("start", "", NoEnv, u)

\* l.355
start ==
  LET u == IF role = "owner" THEN [Same EXCEPT !.running = TRUE, !.finished = FALSE]
                             ELSE Same
  IN /\ Handler
     /\ Render(u)
     /\ UNCHANGED <<chan, loads>>
     /\ Trace("start", "", NoEnv, u)

\* pause without the role test
pauseUnguarded ==
  LET u == [Same EXCEPT !.running = FALSE]
  IN /\ Handler
     /\ Render(u)
     /\ UNCHANGED <<chan, loads>>
     /\ Trace("pause", "", NoEnv, u)

\* l.356
pause ==
  LET u == [Same EXCEPT !.running = IF role = "owner" THEN FALSE ELSE running]
  IN /\ Handler
     /\ Render(u)
     /\ UNCHANGED <<chan, loads>>
     /\ Trace("pause", "", NoEnv, u)

\* a reset that empties the bank
ResetItemsCleared(arr) == <<>>

\* l.357-361
ResetItems(arr) == [i \in 1..Len(arr) |-> [arr[i] EXCEPT !.status = "pendiente"]]
reset ==
  LET u == IF role # "owner"
             THEN Same
             ELSE SetGame(ResetItems(items), 0, defaultSeconds, FALSE, FALSE)
  IN /\ Handler
     /\ Render(u)
     /\ UNCHANGED <<chan, loads>>
     /\ Trace("reset", "", NoEnv, u)

\* l.363-366: the value setTimer gives to seconds
setTimer(newSeconds) ==
  IF role # "owner" THEN seconds ELSE clamp(newSeconds, 0, MAX_TIMER)

\* l.367
adjustTimer(delta) ==
  LET u == [Same EXCEPT !.seconds = setTimer(seconds + delta)]
  IN /\ seconds + delta <= MaxSeconds
     /\ Handler
     /\ Render(u)
     /\ UNCHANGED <<chan, loads>>
     /\ Trace("adjustTimer", "", NoEnv, u)

\* l.368-374, with the text of the timer field: what the owner typed, or
\* what the effect of l.127 wrote there
applyTimerInput(timerInput) ==
  LET parsed == parseMmSs(timerInput)
  IN /\ parsed = Null \/ parsed.v <= MaxSeconds
     /\ Handler
     /\ UNCHANGED <<chan, loads>>
     /\ IF parsed = Null
          THEN \E showing \in BOOLEAN :
                 LET u == Notice(Same, "Formato invalido", showing)
                 IN Render(u) /\ TraceNotice("applyTimerInput", "", u)
          ELSE LET u == [Same EXCEPT !.seconds = setTimer(parsed.v),
                                     !.defaultSeconds = parsed.v]
               IN Render(u) /\ Trace("applyTimerInput", "", NoEnv, u)

\* an interval callback that counts up
tickCountsUp ==
  LET u == [Same EXCEPT !.seconds = seconds + 1]
  IN /\ timerOn
     /\ seconds < MaxSeconds
     /\ Handler
     /\ Render(u)
     /\ UNCHANGED <<chan, loads>>
     /\ Trace("tick", "", NoEnv, u)

\* l.212: the interval callback
tick ==
  LET u == [Same EXCEPT !.seconds = IF seconds > 0 THEN seconds - 1 ELSE 0]
  IN /\ timerOn
     /\ Handler
     /\ Render(u)
     /\ UNCHANGED <<chan, loads>>
     /\ Trace("tick", "", NoEnv, u)

\* l.133-146, l.170-182: whether the try block throws
LoadThrows(res) == res.kind = "throw" \/ Len(Mapped(res)) = 0

\* l.148-152, l.184-188, in the continuation of the load l
LoadInstall(res, l) == SetGame(Mapped(res), 0, l.defaultSeconds, FALSE, FALSE)

\* l.157-161, in the continuation of the load l
LoadFallback(l) ==
  SetGame([i \in 1..Len(FALLBACK_DBZ) |->
             [letter |-> toUpperCase(FALLBACK_DBZ[i].letter), rule |-> FALLBACK_DBZ[i].rule,
              prompt |-> FALLBACK_DBZ[i].prompt, answer |-> FALLBACK_DBZ[i].answer,
              status |-> "pendiente"]],
          0, l.defaultSeconds, FALSE, FALSE)

\* the record of a call that reaches its await
Called(fn) ==
  /\ loads' = loads \cup {Load(fn, FALSE)}
  /\ lastOp' = Op("call", fn)
  /\ lastEnv' = NoEnv
  /\ out' = <<>>
  /\ flushed' = FALSE
  /\ snack' = ""
  /\ UNCHANGED proxy

\* l.130-132: the owner presses "Cargar desde URL" (l.542) and loadFromUrl
\* runs up to its await of fetch
loadFromUrlCall ==
  /\ role = "owner"
  /\ Cardinality(loads) < MaxLoads
  /\ Handler
  /\ NoRender
  /\ UNCHANGED chan
  /\ Called("loadFromUrl")

\* l.167-169: the owner picks a file (l.525-527) and loadFromFile runs up to
\* its await of file.text()
loadFromFileCall ==
  /\ role = "owner"
  /\ Cardinality(loads) < MaxLoads
  /\ Handler
  /\ NoRender
  /\ UNCHANGED chan
  /\ Called("loadFromFile")

\* l.132-164: the continuation of a call of loadFromUrl from the owner's
\* controls or, with silent set, from the mount effect (l.204); res is what
\* the fetch and res.json() give
loadFromUrl(res, silent) ==
  /\ Handler
  /\ UNCHANGED chan
  /\ \E l \in loads :
       /\ l.fn = "loadFromUrl" /\ l.silent = silent
       /\ loads' = loads \ {l}
       /\ LET u == IF LoadThrows(res)
                     THEN Notice(LoadFallback(l), "No se pudo cargar el JSON", FALSE)
                     ELSE IF silent THEN LoadInstall(res, l)
                     ELSE Notice(LoadInstall(res, l), "Banco cargado", FALSE)
          IN Render(u) /\ TraceNotice("loadFromUrl", res.name, u)

\* l.169-193: the continuation of a call of loadFromFile; res is what
\* file.text() and JSON.parse give
loadFromFile(res) ==
  /\ Handler
  /\ UNCHANGED chan
  /\ \E l \in loads, showing \in BOOLEAN :
       /\ l.fn = "loadFromFile"
       /\ loads' = loads \ {l}
       /\ LET u == IF LoadThrows(res)
                     THEN Notice(Same, "No se pudo leer el archivo", showing)
                     ELSE Notice(LoadInstall(res, l), "Banco cargado desde archivo", FALSE)
          IN Render(u) /\ TraceNotice("loadFromFile", res.name, u)

\* The callbacks the browser may still call on an unmounted session: those
\* whose registration the cleanups did not release, and the continuations of
\* the loads in flight (l.132 and l.169 await, and nothing cancels them)
CallableAfterUnmount ==
  {l.fn : l \in loads}
    \cup (IF timerOn THEN {"tick"} ELSE {})
    \cup (IF listeners.bc > 0 THEN {"onMsg"} ELSE {})
    \cup (IF listeners.storage > 0 THEN {"onStorage"} ELSE {})
    \cup (IF listeners.net > 0 THEN {"onBroadcast"} ELSE {})
    \cup (IF chan \in {"joining", "subscribed", "failed"} THEN {"subscribeCallback"} ELSE {})

\* such a callback runs: React drops the setState calls made on a component
\* that is unmounted, and runs no effect for it
afterUnmount(callback) ==
  /\ mounted = "unmounted"
  /\ callback \in CallableAfterUnmount
  /\ IF \E l \in loads : l.fn = callback
       THEN \E l \in loads : l.fn = callback /\ loads' = loads \ {l}
       ELSE UNCHANGED loads
  /\ lastOp' = Op(callback, "unmounted")
  /\ lastEnv' = NoEnv
  /\ snack' = ""
  /\ UNCHANGED proxy
  /\ out' = <<>>
  /\ flushed' = FALSE
  /\ UNCHANGED <<config, mounted, game, defaultSeconds, joined, roomChannelRef, chan,
                 sinceLastSent, timerOn, listeners, changed>>

\* l.250-253: the subscribe callback
ChannelStatuses == {"SUBSCRIBED", "TIMED_OUT", "CLOSED", "CHANNEL_ERROR"}
subscribeCallback(status) ==
  LET u == [Same EXCEPT !.joined = IF status = "SUBSCRIBED" THEN TRUE ELSE joined]
  IN /\ chan \in {"joining", "subscribed", "failed"}
     /\ Handler
     /\ chan' = IF status = "SUBSCRIBED" THEN "subscribed" ELSE "failed"
     /\ Render(u)
     /\ UNCHANGED loads
     /\ Trace("subscribeCallback", "", NoEnv, u)

\* time passes: performance.now() grows by TimeStep
Elapse ==
  /\ Ready
  /\ sinceLastSent < THROTTLE_MS
  /\ sinceLastSent' = Min(sinceLastSent + TimeStep, THROTTLE_MS)
  /\ lastOp' = Op("elapse", "")
  /\ lastEnv' = NoEnv
  /\ snack' = ""
  /\ UNCHANGED <<loads, proxy>>
  /\ out' = <<>>
  /\ flushed' = FALSE
  /\ UNCHANGED <<config, mounted, game, defaultSeconds, joined, roomChannelRef, chan,
                 timerOn, listeners, changed>>

----------------------------------------------------------------------------
(* Inbound path *)

\* a receiver that merges: it keeps the smaller of the two countdown values
ApplyMerging(m) ==
  SetGame(m.items, m.idx, Min(seconds, m.seconds), m.running, m.finished)

\* a handler whose calls are not batched, seen after the first three
ApplyInTwoCommits(m) == SetGame(m.items, m.idx, m.seconds, running, finished)

\* l.303-307, l.316-320, l.239-243
Apply(m) == SetGame(m.items, m.idx, m.seconds, m.running, m.finished)

\* onMsg without the room test of l.302
MsgRejectedAnyRoom(present, m) == ~present \/ m.type # "state"

\* l.301-302: onMsg returns early
MsgRejected(present, m) ==
  \/ ~present \/ m.type # "state"
  \/ (m.roomId # "" /\ m.roomId # roomId)

\* l.299-308; delivered by the BroadcastChannel named CHANNEL
onMsg(present, m) ==
  LET u == IF MsgRejected(present, m) THEN Same ELSE Apply(m)
  IN /\ listeners.bc > 0
     /\ Handler
     /\ Render(u)
     /\ UNCHANGED <<chan, loads>>
     /\ Trace("onMsg", "", Env("bc", CHANNEL, present, m), u)

\* l.312-315: the storage event is applied; present: newValue is non-null
\* and JSON.parse does not throw
StorageAccepted(key, present, m) ==
  /\ key = "rosco-sync" /\ present
  /\ m.type = "state" /\ (m.roomId = "" \/ m.roomId = roomId)

\* l.311-324
onStorage(key, present, m) ==
  LET u == IF StorageAccepted(key, present, m) THEN Apply(m) ELSE Same
  IN /\ listeners.storage > 0
     /\ Handler
     /\ Render(u)
     /\ UNCHANGED <<chan, loads>>
     /\ Trace("onStorage", "", Env("storage", key, present, m), u)

\* l.232-233: supabase.channel(roomId, ...): the topic this session's
\* channel is subscribed to; the realtime service hands a channel only the
\* broadcasts sent to its topic
ChannelTopic == roomId

\* the realtime handler without the role test of l.238
RealtimeAppliedByAnyRole(present) == present

\* l.235-238: the realtime handler applies msg.payload
RealtimeAppliedBy(present) == present /\ role = "player"

\* l.234-245, for a broadcast of event "state" sent to `topic`
onBroadcast(topic, present, m) ==
  LET u == IF topic = ChannelTopic /\ RealtimeAppliedBy(present) THEN Apply(m) ELSE Same
  IN /\ listeners.net > 0
     /\ Handler
     /\ Render(u)
     /\ UNCHANGED <<chan, loads>>
     /\ Trace("onBroadcast", "", Env("net", topic, present, m), u)

----------------------------------------------------------------------------
(* Specification *)

Callbacks ==
  {"loadFromUrl", "loadFromFile", "tick", "onMsg", "onStorage", "onBroadcast",
   "subscribeCallback"}
MarkStatuses == {"pasada", "bien", "mal"}    \* l.509-511
StorageKeys == {"rosco-sync", "rosco-url"}

\* the session's life cycle, its effects and the passing of time
Lifecycle ==
  \/ Mount(FALSE)
  \/ Effects
  \/ Teardown
  \/ Elapse
  \/ \E status \in ChannelStatuses : subscribeCallback(status)

\* the loads an owner session is given while it plays: one that fails, the
\* full bank and the bank with a dropped record
GameLoads == {res \in LoadResults : res.name \in {"throw", "good", "mixed"}}

\* the load of the full bank
FullLoad == {res \in LoadResults : res.name = "good"}

\* what a transport delivers: a message, or data that is absent or does not
\* parse
Deliveries ==
  {[present |-> TRUE, m |-> m] : m \in InMsgs}
    \cup {[present |-> FALSE, m |-> Msg("", "", PayA)]}

\* deliveries of the three transports
Inbound ==
  \/ \E d \in Deliveries : onMsg(d.present, d.m)
  \/ \E key \in StorageKeys, d \in Deliveries : onStorage(key, d.present, d.m)
  \/ \E topic \in Rooms, d \in Deliveries : onBroadcast(topic, d.present, d.m)

InitOwner == Init /\ role = "owner" /\ roomId = "X"
InitPlayer == Init /\ role = "player" /\ ~setItemThrows

\* a browser in which both local transports work
LocalTransportsWork == bc /\ ~setItemThrows

\* an owner without a realtime client, and one with it
InitOwnerAlone == InitOwner /\ ~supabase /\ LocalTransportsWork
InitOwnerOnline == InitOwner /\ supabase /\ LocalTransportsWork

\* a player session: its life cycle and what it is delivered
NextPlayer == Lifecycle \/ Inbound

\* the handlers that test the role themselves (l.347, l.355-358, l.364),
\* called in a session of either role
GuardedCalls ==
  \/ \E status \in MarkStatuses : mark(status)
  \/ start
  \/ pause
  \/ reset
  \/ \E delta \in AdjustDeltas : adjustTimer(delta)
  \/ \E str \in TimerInputs : applyTimerInput(str)

\* a player session with a BroadcastChannel in which those handlers are
\* called between the deliveries of the channel
NextPlayerCalls ==
  \/ Lifecycle
  \/ GuardedCalls
  \/ \E d \in Deliveries : onMsg(d.present, d.m)

InitPlayerCalls == InitPlayer /\ roomId = "X" /\ bc

\* The owner sessions below are each given part of the owner's operations,
\* and every step that then runs without the owner: the effect flushes, the
\* clock, the interval once a game was started, the channel's status once
\* there is a channel, the continuations of the loads that were called and
\* the callbacks left after an unmount.

\* an owner without a realtime client that loads banks and plays
NextOwnerGame ==
  \/ Mount(FALSE)
  \/ Effects
  \/ Elapse
  \/ tick
  \/ \E status \in MarkStatuses : mark(status)
  \/ start
  \/ pause
  \/ reset
  \/ \E delta \in AdjustDeltas : adjustTimer(delta)
  \/ loadFromFileCall
  \/ \E res \in GameLoads : loadFromFile(res)

SpecOwnerGame == InitOwnerAlone /\ [][NextOwnerGame]_vars

\* an owner without a realtime client that sets the timer while its banks
\* load, and plays
NextOwnerBank ==
  \/ Mount(FALSE)
  \/ Effects
  \/ Elapse
  \/ tick
  \/ mark("bien")
  \/ start
  \/ pause
  \/ reset
  \/ adjustTimer(-10)
  \/ applyTimerInput(<<Num(0), Num(2)>>)
  \/ loadFromFileCall
  \/ \E res \in GameLoads : loadFromFile(res)

SpecOwnerBank == InitOwnerAlone /\ [][NextOwnerBank]_vars

\* an owner with a realtime client that loads a bank, plays and is unmounted
NextOwnerNet ==
  \/ Mount(FALSE)
  \/ Effects
  \/ Elapse
  \/ tick
  \/ \E status \in ChannelStatuses : subscribeCallback(status)
  \/ mark("bien")
  \/ start
  \/ loadFromFileCall
  \/ \E res \in GameLoads : loadFromFile(res)
  \/ Teardown
  \/ \E callback \in Callbacks : afterUnmount(callback)

SpecOwnerNet == InitOwnerOnline /\ [][NextOwnerNet]_vars

\* an owner with a realtime client that loads the full bank and marks
NextOwnerMarks ==
  \/ Mount(FALSE)
  \/ Effects
  \/ Elapse
  \/ \E status \in ChannelStatuses : subscribeCallback(status)
  \/ \E status \in MarkStatuses : mark(status)
  \/ loadFromFileCall
  \/ \E res \in FullLoad : loadFromFile(res)

SpecOwnerMarks == InitOwnerOnline /\ [][NextOwnerMarks]_vars

\* an owner with a realtime client, in every browser: with and without
\* BroadcastChannel, with and without a writable storage
NextOwnerLocal ==
  \/ Mount(FALSE)
  \/ Effects
  \/ Elapse
  \/ tick
  \/ \E status \in ChannelStatuses : subscribeCallback(status)
  \/ start
  \/ pause
  \/ loadFromFileCall
  \/ \E res \in GameLoads : loadFromFile(res)

InitOwnerLocal == InitOwner /\ supabase
SpecOwnerLocal == InitOwnerLocal /\ [][NextOwnerLocal]_vars

\* an owner whose loads are in flight when it is unmounted
NextOwnerTeardown ==
  \/ Mount(FALSE)
  \/ Effects
  \/ Elapse
  \/ tick
  \/ \E status \in ChannelStatuses : subscribeCallback(status)
  \/ start
  \/ loadFromUrlCall
  \/ \E res \in GameLoads : loadFromUrl(res, FALSE)
  \/ Teardown
  \/ \E callback \in Callbacks : afterUnmount(callback)

SpecOwnerTeardown == InitOwnerOnline /\ [][NextOwnerTeardown]_vars

\* a player session: the replica and the inbound path
SpecPlayer == InitPlayer /\ [][NextPlayer]_vars

\* the broadcasts an owner is sent on the realtime channel
OwnerInMsgs == {Msg("state", "", p) : p \in {PayB, PayC}}

\* an owner session that loads a bank, marks and is sent broadcasts on the
\* realtime channel, the one transport an owner registers a handler on
\* (l.234, l.298)
NextOwnerInbound ==
  \/ Mount(FALSE)
  \/ Effects
  \/ Elapse
  \/ \E status \in ChannelStatuses : subscribeCallback(status)
  \/ \E status \in MarkStatuses : mark(status)
  \/ loadFromFileCall
  \/ \E res \in GameLoads : loadFromFile(res)
  \/ \E topic \in Rooms, present \in BOOLEAN, m \in OwnerInMsgs : onBroadcast(topic, present, m)

SpecOwnerInbound == InitOwnerOnline /\ [][NextOwnerInbound]_vars

\* an owner session that is given every load result, from the URL field,
\* from the json parameter at mount (silent) and from a file, and marks
NextOwnerLoads ==
  \/ \E json \in BOOLEAN : Mount(json)
  \/ Effects
  \/ Elapse
  \/ loadFromUrlCall
  \/ loadFromFileCall
  \/ \E res \in LoadResults, silent \in BOOLEAN : loadFromUrl(res, silent)
  \/ \E res \in LoadResults : loadFromFile(res)
  \/ \E status \in MarkStatuses : mark(status)

SpecOwnerLoads == InitOwnerAlone /\ [][NextOwnerLoads]_vars

\* a player session in which the role-tested handlers are called as well
SpecPlayerCalls == InitPlayerCalls /\ [][NextPlayerCalls]_vars

----------------------------------------------------------------------------
(* Properties of the inbound path *)

ReceiveOps == {"onMsg", "onStorage", "onBroadcast"}

\* the room an inbound message is addressed to: the roomId it carries on the
\* local transports, the topic it was sent to on the realtime channel
Tag(e) == IF e.via = "net" THEN e.key ELSE e.m.roomId

\* the delivery is a SyncEnvelope on its transport: data of kind "state",
\* for the storage transport written to the sync slot
IsEnvelope(e) ==
  /\ e.present
  /\ e.via = "net" \/ e.m.type = "state"
  /\ e.via = "storage" => e.key = "rosco-sync"

\* the handler applies the delivery e
Applied(e) ==
  CASE e.via = "bc" -> ~MsgRejected(e.present, e.m)
    [] e.via = "storage" -> StorageAccepted(e.key, e.present, e.m)
    [] e.via = "net" -> e.key = ChannelTopic /\ RealtimeAppliedBy(e.present)
    [] OTHER -> FALSE

(* C1. Room isolation.  In a player session, on each of the three          *)
(* transports, a delivery addressed to another room changes none of the    *)
(* five replicated fields, and an envelope addressed to the session's room *)
(* is applied: the replica then holds its payload.                         *)
C1_RoomIsolation ==
  [][(role = "player" /\ lastEnv' # NoEnv) =>
       /\ (Tag(lastEnv') \notin {"", roomId}) => UNCHANGED game
       /\ (IsEnvelope(lastEnv') /\ Tag(lastEnv') = roomId)
            => Snapshot' = Payload(lastEnv'.m)]_vars

\* a player holding the payload of its own room's envelope has just been
\* delivered a different, well-formed envelope of another room
C1_Witness ==
  /\ role = "player"
  /\ lastEnv # NoEnv /\ IsEnvelope(lastEnv)
  /\ Tag(lastEnv) \notin {"", roomId}
  /\ Snapshot = PayA
  /\ Payload(lastEnv.m) = PayB

(* C2. Wholesale replacement.  Whenever a player's receive handler applies *)
(* a delivery, the five replicated fields afterwards equal the delivered   *)
(* payload, whatever the replica held before: nothing of the old replica   *)
(* is kept and the order of arrival alone decides.                         *)
C2_WholesaleReplacement ==
  (role = "player" /\ lastOp.op \in ReceiveOps /\ Applied(lastEnv))
    => Snapshot = Payload(lastEnv.m)

\* a delivery was applied over a replica that differed from it in the
\* index, the countdown and the running flag
C2_Witness ==
  /\ role = "player"
  /\ lastOp.op \in ReceiveOps /\ Applied(lastEnv)
  /\ {"idx", "seconds", "running"} \subseteq changed
  /\ Snapshot = PayA

----------------------------------------------------------------------------
(* Properties of the owner session *)

GameDeps == {"items", "idx", "seconds", "running", "finished"}

\* the step runs the effects of a commit, on their own or ahead of the
\* render of a handler's calls
EffectsStep == mounted = "mounted" /\ changed # {} /\ flushed'

\* the messages of o sent on transport via
Via(o, via) == SelectSeq(o, LAMBDA x : x.via = via)

\* o holds a BroadcastChannel post and a write of the sync slot
LocalSent(o) == Via(o, "bc") # <<>> /\ Via(o, "storage") # <<>>

(* C3. Throttle bound.  Every commit of the owner that changes the game    *)
(* state is followed by a BroadcastChannel post and a write of the storage *)
(* slot; at most one send goes to the network channel for it, and a        *)
(* network send occurs only when the throttle interval has passed since    *)
(* the previous one, so changes that fall within one interval cause at     *)
(* most one network send.                                                  *)
C3_ThrottleBound ==
  [][(role = "owner" /\ EffectsStep /\ changed \cap GameDeps # {}) =>
       /\ LocalSent(out')
       /\ Len(Via(out', "net")) <= 1
       /\ Via(out', "net") # <<>> => sinceLastSent >= THROTTLE_MS]_vars

(* C4. The local legs do not wait for the network join.  Every commit of   *)
(* the owner that changes the game state while the join is not             *)
(* acknowledged is followed by a BroadcastChannel post and a write of the  *)
(* storage slot.                                                           *)
C4_LocalLegsWithoutJoin ==
  [][(role = "owner" /\ EffectsStep /\ changed \cap GameDeps # {} /\ ~joined)
       => LocalSent(out')]_vars

(* C5. The owner sends on the network channel only from a mounted session  *)
(* whose channel reference is set and whose joined flag is true; the       *)
(* joined flag turns true only in the subscribe callback given SUBSCRIBED, *)
(* and is false, with the channel reference cleared, after teardown.       *)
C5_NetworkSendOnlyJoined ==
  [][/\ (role = "owner" /\ Via(out', "net") # <<>> /\ flushed')
          => (joined /\ roomChannelRef /\ chan \in {"subscribed", "failed"})
     /\ (joined' /\ ~joined)
          => (lastOp'.op = "subscribeCallback" /\ chan' = "subscribed" /\ chan # "none")
     /\ mounted' = "unmounted" => (~joined' /\ ~roomChannelRef')]_vars

\* an owner whose channel acknowledged the join has just sent its state on
\* the network channel
C5_Witness ==
  /\ role = "owner"
  /\ lastOp.op = "effects"
  /\ chan = "subscribed" /\ joined
  /\ Via(out, "net") # <<>>

\* the effects that ran in the last step were those of the commit in which
\* the countdown reached 0: the expiry effect fired
ExpiryRan == mounted = "mounted" /\ flushed /\ finished /\ "finished" \in changed

\* the messages of o that the expiry effect sent
ByExpiry(o) == SelectSeq(o, LAMBDA x : x.by = "expiry")

(* C6. Timer expiry.  When the countdown reaches 0 while running, the      *)
(* owner becomes not running and finished, and the expiry publishes        *)
(* exactly one snapshot on each local transport, which carries             *)
(* isRunning = false and isFinished = true.                                *)
C6_ExpiryPublishesFinished ==
  (role = "owner" /\ ExpiryRan) =>
    /\ ~running /\ finished
    /\ Len(Via(ByExpiry(out), "bc")) = 1
    /\ Len(Via(ByExpiry(out), "storage")) = 1
    /\ \A i \in 1..Len(ByExpiry(out)) :
         ~ByExpiry(out)[i].m.running /\ ByExpiry(out)[i].m.finished

(* C7. In every reachable state of the owner, and in every snapshot the    *)
(* owner sends on any transport, isFinished implies not isRunning.         *)
C7_FinishedNotRunning ==
  role = "owner" =>
    /\ finished => ~running
    /\ \A i \in 1..Len(out) : out[i].m.finished => ~out[i].m.running

\* the countdown of a running owner has expired
C7_Witness == role = "owner" /\ ExpiryRan /\ ~running /\ seconds = 0

(* C8. In every reachable state of the owner with a non-empty items,       *)
(* 0 <= currentIndex < len(items).                                         *)
C8_IndexInRange ==
  (role = "owner" /\ Len(items) > 0) => (0 <= idx /\ idx < Len(items))

\* a mark at the last item has wrapped to the first, which was passed
C8_Witness ==
  /\ role = "owner"
  /\ lastOp.op = "mark"
  /\ Len(items) = MaxItems
  /\ items[Len(items)].status = "mal"
  /\ items[1].status = "pasada"
  /\ idx = 0

\* the index C9 states: the first index after i, going round its, whose item
\* is pending or passed, and i when there is no other such item
Answerable(its, i) ==
  {d \in 1..(Len(its) - 1) :
     its[((i + d) % Len(its)) + 1].status \in {"pendiente", "pasada"}}
FirstAnswerableAfter(its, i) ==
  IF Answerable(its, i) = {} THEN i
  ELSE (i + (CHOOSE d \in Answerable(its, i) :
               \A e \in Answerable(its, i) : d <= e)) % Len(its)

(* C9. Mark.  When the owner marks the item at currentIndex i with status  *)
(* s, the resulting state has items[i].status = s, every other item as it  *)
(* was, and currentIndex at the first index after i, scanning cyclically,  *)
(* whose status is pending or skipped, or at i when no other item is       *)
(* pending or skipped; and every snapshot sent when the effects of that    *)
(* commit run, on their own or ahead of the next handler's render, carries *)
(* these items and this currentIndex.                                      *)
C9_MarkAdvances ==
  [][/\ (role = "owner" /\ lastOp'.op = "mark")
          => /\ items'[idx + 1].status = lastOp'.arg
             /\ \A k \in 1..Len(items) : k # idx + 1 => items'[k] = items[k]
             /\ Len(items') = Len(items)
             /\ idx' = FirstAnswerableAfter(items', idx)
     /\ (role = "owner" /\ lastOp.op = "mark" /\ EffectsStep)
          => \A k \in 1..Len(out') :
               /\ Payload(out'[k].m).items = items
               /\ Payload(out'[k].m).idx = idx]_vars

\* a joined owner marked the first item "bien" after a full round; the mark
\* passed over the answered second item and stopped at the passed third, and
\* the snapshot of that state was posted
C9_Witness ==
  /\ role = "owner"
  /\ lastOp = Op("effects", "mark")
  /\ Len(items) = MaxItems
  /\ items[1].status = "bien" /\ items[2].status = "mal" /\ items[3].status = "pasada"
  /\ idx = 2
  /\ Via(out, "bc") # <<>>
  /\ Payload(Via(out, "bc")[1].m) = Snapshot

RaisingOps == {"reset", "adjustTimer", "applyTimerInput", "loadFromUrl", "loadFromFile"}

(* C10, as stated.  While isRunning is true the owner's secondsRemaining   *)
(* never increases from one state to the next, and the only operation that *)
(* raises secondsRemaining is the owner's reset.                           *)
C10_OnlyResetRaises ==
  [][role = "owner" =>
       /\ (running /\ running') => seconds' <= seconds
       /\ seconds' > seconds => lastOp'.op = "reset"]_vars

\* l.212 given a negative secondsRemaining, which reset and the bank loads
\* copy from a negative default duration: the tick sets it to 0
TickFromNegative == lastOp'.op = "tick" /\ seconds < 0 /\ seconds' = 0

(* C10, amended.  The owner's secondsRemaining increases only in a step of *)
(* an operation the owner calls, namely reset, adjustTimer,                *)
(* applyTimerInput or a bank load, or in a tick that finds it negative and *)
(* sets it to 0; while isRunning is true before and after the step, of the *)
(* owner's operations only adjustTimer and applyTimerInput raise it; a     *)
(* tick at a positive value lowers it by one and a tick at 0 leaves it.    *)
C10_OnlyOwnerOpsRaise ==
  [][role = "owner" =>
       /\ seconds' > seconds => (lastOp'.op \in RaisingOps \/ TickFromNegative)
       /\ (running /\ running' /\ seconds' > seconds)
            => (lastOp'.op \in {"adjustTimer", "applyTimerInput"} \/ TickFromNegative)
       /\ (lastOp'.op = "tick" /\ seconds >= 0)
            => seconds' = Max(seconds - 1, 0)]_vars

\* the owner added time to a running countdown
C10_Witness ==
  /\ role = "owner"
  /\ running
  /\ timerOn
  /\ lastOp.op \in {"adjustTimer", "applyTimerInput"}
  /\ changed = {"seconds"}
  /\ seconds = MaxSeconds

(* C11. In every reachable state of the owner, secondsRemaining is >= 0,   *)
(* also after the timer input was applied and a later reset or bank load   *)
(* copied the default duration into it.                                    *)
C11_SecondsNonNegative ==
  role = "owner" => seconds >= 0

\* the fields of the bank that are not status
Content(its) ==
  [k \in 1..Len(its) |->
     [letter |-> its[k].letter, rule |-> its[k].rule,
      prompt |-> its[k].prompt, answer |-> its[k].answer]]

LoadOps == {"loadFromUrl", "loadFromFile"}

(* C12, as stated.  Once the game has started (isRunning is true), no      *)
(* owner operation changes the length of items or any item's letter, rule, *)
(* prompt or answer.                                                       *)
C12_BankFixedOnceStarted ==
  [][(role = "owner" /\ running) => Content(items') = Content(items)]_vars

(* C12, amended.  Once the game has started, no owner operation other than *)
(* a bank load changes the length of items or any item's letter, rule,     *)
(* prompt or answer: mark, start, pause, reset, the timer operations, the  *)
(* tick and the expiry change status fields at most.  A bank load          *)
(* (loadFromUrl, loadFromFile) may replace items, also while the game is   *)
(* running.  Stated for every state of the owner, started or not.          *)
C12_OnlyLoadReplacesBank ==
  [][(role = "owner" /\ Content(items') # Content(items))
       => lastOp'.op \in LoadOps]_vars

\* a file load has replaced the three-item bank of a running game by a bank
\* of one item
C12_Witness ==
  /\ role = "owner"
  /\ lastOp.op = "loadFromFile"
  /\ {"items", "running"} \subseteq changed
  /\ Len(items) = 1

----------------------------------------------------------------------------
(* Properties of the roles *)

CallOps == {"mark", "start", "pause", "reset", "adjustTimer", "applyTimerInput"}

(* C13. In a player session the replica changes only by wholesale          *)
(* replacement from an incoming envelope: every step that changes one of   *)
(* the five fields is a receive handler applying its delivery, after which *)
(* the replica equals the payload; calls of mark, start, pause, reset,     *)
(* adjustTimer and applyTimerInput and the effect flushes leave the        *)
(* replica as it was, and the countdown interval is never registered, so   *)
(* no tick and no expiry occurs.                                           *)
C13_PlayerReplicaOnlyByEnvelope ==
  [][role = "player" =>
       /\ ~(UNCHANGED game) =>
            /\ lastOp'.op \in ReceiveOps
            /\ Applied(lastEnv')
            /\ Snapshot' = Payload(lastEnv'.m)
       /\ lastOp'.op \in CallOps \cup {"effects", "mount", "teardown"} => UNCHANGED game
       /\ ~timerOn' /\ ~TimerWanted' /\ ~ExpiryFires']_vars

\* pause was called in a player session whose replica shows a running game
\* with 1 second left: the replica is still the payload it received
C13_Witness ==
  /\ role = "player"
  /\ lastOp.op = "pause"
  /\ Snapshot = PayB
  /\ running

(* C14. A player session never publishes: no step of it posts on the       *)
(* BroadcastChannel, writes the storage sync slot or sends on the realtime *)
(* channel, in any state and after any event.                              *)
C14_PlayerNeverPublishes ==
  role = "player" => out = <<>>

\* a player whose channel is joined has applied a delivery and its effects
\* have run: the publish effect was due (its dependencies changed) and sent
\* nothing
C14_Witness ==
  /\ role = "player"
  /\ joined /\ chan = "subscribed"
  /\ lastOp.op = "effects" /\ lastOp.arg \in ReceiveOps
  /\ Snapshot = PayB
  /\ out = <<>>

(* C15. An owner session's GameState is never changed by an inbound        *)
(* envelope: the owner registers no BroadcastChannel and no storage        *)
(* listener, and a broadcast delivered to its realtime handler, also one   *)
(* for its own room, leaves the five fields as they were.                  *)
C15_OwnerIgnoresInbound ==
  [][role = "owner" =>
       /\ lastOp'.op \in ReceiveOps => UNCHANGED game
       /\ listeners'.bc = 0 /\ listeners'.storage = 0]_vars

\* an owner in the middle of a game was delivered, on the channel of its own
\* room, the state of another session, and kept its own
C15_Witness ==
  /\ role = "owner"
  /\ lastOp.op = "onBroadcast"
  /\ lastEnv.key = roomId /\ lastEnv.present /\ lastEnv.m.type = "state"
  /\ Payload(lastEnv.m) = PayB
  /\ idx = 2 /\ Len(items) = MaxItems /\ items[1].status = "bien"
  /\ Snapshot # PayB

(* C16. A player applies a message of a local transport (BroadcastChannel  *)
(* or storage event) only if it carries a roomId equal to the session's    *)
(* room: a step of onMsg or onStorage that changes the replica was given a *)
(* message tagged with that room, and a message with no roomId leaves the  *)
(* replica unchanged.                                                      *)
C16_LocalNeedsMatchingRoom ==
  [][(role = "player" /\ lastOp'.op \in {"onMsg", "onStorage"}) =>
       /\ ~(UNCHANGED game) => lastEnv'.m.roomId = roomId
       /\ lastEnv'.m.roomId = "" => UNCHANGED game]_vars

----------------------------------------------------------------------------
(* Properties of failure handling *)

(* C18. No inbound message puts a player into an invalid state: after any  *)
(* delivery, on any transport, the replica is a valid GameState: items is  *)
(* a sequence, currentIndex is in range when items is non-empty, and       *)
(* isFinished implies not isRunning.                                       *)
C18_ReplicaStaysValid ==
  role = "player" =>
    /\ DOMAIN items = 1..Len(items)
    /\ Len(items) > 0 => (0 <= idx /\ idx < Len(items))
    /\ finished => ~running

(* C19. After the network channel reported a failure status (TIMED_OUT,    *)
(* CLOSED or CHANNEL_ERROR), also after an earlier successful join, the    *)
(* owner issues no network send until a later SUBSCRIBED acknowledgment:   *)
(* no step of an owner whose channel is in the failed state sends on the   *)
(* realtime channel.  (That the local sends continue meanwhile is,  *)
(* for an owner that is not joined, the statement of C4.)                  *)
C19_NoNetworkSendAfterFailure ==
  [][(role = "owner" /\ chan = "failed" /\ EffectsStep)
       => Via(out', "net") = <<>>]_vars

\* what the teardown leaves: everything but the record of the step
Resources ==
  <<config, mounted, game, defaultSeconds, joined, roomChannelRef, chan,
    sinceLastSent, timerOn, listeners, changed>>

(* C20. Idempotent teardown.  After teardown the session is not joined,    *)
(* holds no channel reference, no interval and no registered listener,     *)
(* and running the teardown again on the torn-down session changes none of *)
(* this: the state after two teardowns is the state after one.             *)
C20_TeardownIdempotent ==
  [][/\ mounted' = "unmounted" =>
          (~joined' /\ ~roomChannelRef' /\ ~timerOn' /\ listeners' = NoListeners
             /\ chan' \in {"none", "removed"})
     /\ (mounted = "unmounted" /\ lastOp'.op = "teardown") => UNCHANGED Resources]_vars

\* the teardown ran a second time on a player that had been joined and held
\* a replica
C20_Witness ==
  /\ role = "player"
  /\ supabase
  /\ lastOp = Op("teardown", "again")
  /\ chan = "removed"
  /\ Snapshot = PayB
  /\ listeners = NoListeners /\ ~joined /\ ~roomChannelRef

----------------------------------------------------------------------------
(* Properties of the session's life cycle *)

Registered == {"tick", "onMsg", "onStorage", "onBroadcast", "subscribeCallback"}

(* C21. After teardown the countdown interval is cancelled, the            *)
(* BroadcastChannel and storage listeners and the realtime handler are     *)
(* deregistered and the channel is removed, so none of the registered      *)
(* callbacks (tick, receive handlers, subscribe callback) runs on the      *)
(* torn-down session; and no step after teardown, the continuation of a    *)
(* pending bank load included, changes the session's state or sends a      *)
(* message.                                                                *)
C21_NothingAfterTeardown ==
  [][mounted = "unmounted" =>
       /\ ~timerOn /\ listeners = NoListeners /\ chan \in {"none", "removed"}
       /\ lastOp'.op \notin Registered
       /\ UNCHANGED Resources
       /\ out' = <<>>]_vars

\* the continuation of a URL load ran on an owner torn down while its game
\* was running and its channel joined: the game is as the teardown left it
C21_Witness ==
  /\ role = "owner"
  /\ mounted = "unmounted"
  /\ lastOp = Op("loadFromUrl", "unmounted")
  /\ running /\ seconds = 1 /\ Len(items) = MaxItems
  /\ chan = "removed" /\ ~timerOn

(* C22. Within one session lifetime each transport has exactly one         *)
(* registered receive listener: a mounted player holds one storage         *)
(* listener, one BroadcastChannel listener when the window has             *)
(* BroadcastChannel and one realtime handler when a realtime client        *)
(* exists, whatever the number of commits and effect flushes; so a         *)
(* delivery runs one handler and is applied once.                          *)
C22_OneListenerPerTransport ==
  (role = "player" /\ mounted = "mounted") =>
    /\ listeners.bc = (IF bc THEN 1 ELSE 0)
    /\ listeners.storage = 1
    /\ listeners.net = (IF supabase THEN 1 ELSE 0)

\* a player with a realtime client has applied a delivery and flushed the
\* effects of that commit, and still holds one listener per transport
C22_Witness ==
  /\ role = "player" /\ mounted = "mounted" /\ supabase /\ bc
  /\ lastOp.op = "effects" /\ lastOp.arg \in ReceiveOps
  /\ Snapshot = PayB
  /\ listeners = [bc |-> 1, storage |-> 1, net |-> 1]

----------------------------------------------------------------------------
(* Properties of the network gate *)

(* C23. A publish rejected by the network gate (not joined, or less than   *)
(* 120 ms since the last accepted send) sends nothing on the network       *)
(* channel and leaves the time of the last network send unchanged, and     *)
(* nothing is queued: a network send occurs only where the effects of a    *)
(* commit run, carries the state of that commit, and sets the time of the  *)
(* last network send to the time of that send.  Otherwise that time only   *)
(* recedes as the clock advances.                                          *)
C23_RejectedSendIsDropped ==
  [][role = "owner" =>
       /\ (flushed' /\ (~joined \/ ~roomChannelRef \/ sinceLastSent < THROTTLE_MS))
            => (Via(out', "net") = <<>> /\ sinceLastSent' = sinceLastSent)
       /\ (flushed' /\ Via(out', "net") = <<>>)
            => sinceLastSent' = sinceLastSent
       /\ Via(out', "net") # <<>> =>
            /\ flushed'
            /\ sinceLastSent' = 0
            /\ Len(Via(out', "net")) = 1
            /\ Payload(Via(out', "net")[1].m) = Snapshot
       /\ sinceLastSent' # sinceLastSent =>
            \/ (lastOp'.op = "elapse" /\ sinceLastSent' > sinceLastSent)
            \/ (Via(out', "net") # <<>> /\ sinceLastSent' = 0)]_vars

\* a joined owner published a state change 60 ms after its last network
\* send: the local legs went out, the network leg was dropped and the time
\* of the last send stayed
C23_Witness ==
  /\ role = "owner"
  /\ lastOp.op = "effects"
  /\ joined /\ roomChannelRef /\ chan = "subscribed"
  /\ LocalSent(out)
  /\ Via(out, "net") = <<>>
  /\ sinceLastSent = TimeStep


----------------------------------------------------------------------------
(* C24 *)


\* the load result a step record names
Loaded(arg) == CHOOSE r \in LoadResults : r.name = arg

\* the records of a load result that have the four fields non-empty,
\* in their order
Survivors(res) ==
  SelectSeq(IF res.kind = "array" THEN res.data ELSE <<>>,
            LAMBDA d : /\ d.letter # ""
                       /\ d.rule # ""
                       /\ d.prompt # ""
                       /\ d.answer # "")

SuccessNotices == {"", "Banco cargado", "Banco cargado desde archivo"}
ErrorNotices == {"No se pudo cargar el JSON", "No se pudo leer el archivo"}

(* C24. A load of a question bank keeps exactly the records whose letter,   *)
(* rule, prompt and answer are non-empty, in their original order, each     *)
(* with status pendiente, the letter upper-cased and the rule replaced by   *)
(* "empieza" when it is not one of the three rules; when no record survives *)
(* the load raises an error notice, never a success notice, and installs no *)
(* bank other than the empty one.                                           *)
C24_IngestionKeepsValidRecords ==
  [][(mounted = "mounted" /\ lastOp'.op \in LoadOps) =>
       LET kept == Survivors(Loaded(lastOp'.arg))
       IN IF kept # <<>>
            THEN /\ Len(items') = Len(kept)
                 /\ \A i \in 1..Len(kept) :
                      /\ items'[i].letter = toUpperCase(kept[i].letter)
                      /\ items'[i].rule =
                           (IF kept[i].rule \in {"empieza", "contiene", "termina"}
                              THEN kept[i].rule ELSE "empieza")
                      /\ items'[i].prompt = kept[i].prompt
                      /\ items'[i].answer = kept[i].answer
                      /\ items'[i].status = "pendiente"
                 /\ snack' \in SuccessNotices
            ELSE /\ snack' \in ErrorNotices
                 /\ items' \in {items, <<>>}]_vars

\* a load of a bank with a dropped record and a rule outside the three has
\* installed the one surviving record
C24_Witness ==
  /\ lastOp.op \in LoadOps
  /\ lastOp.arg = "mixed"
  /\ Len(items) = 1
  /\ items[1].rule = "empieza"
  /\ snack \in SuccessNotices

\* a load in which no record survived has raised the error notice
C24_WitnessNoSurvivor ==
  /\ lastOp.op \in LoadOps
  /\ lastOp.arg = "bad"
  /\ snack \in ErrorNotices


----------------------------------------------------------------------------
(* C25 *)

(* C25. Every load that fails, from the URL or from a file, leaves the     *)
(* empty default bank installed, with idx 0, not running and not finished, *)
(* and raises an error notice.                                             *)
C25_FailedLoadInstallsDefaultBank ==
  [][(mounted = "mounted" /\ lastOp'.op \in LoadOps
        /\ Survivors(Loaded(lastOp'.arg)) = <<>>) =>
       /\ items' = FALLBACK_DBZ
       /\ idx' = 0
       /\ ~running'
       /\ ~finished'
       /\ snack' \in ErrorNotices]_vars


----------------------------------------------------------------------------
(* Links: the URL of a session and the player link an owner hands out *)

\* application/x-www-form-urlencoded serialisation of one character, as
\* URLSearchParams does it: a space becomes "+", the characters outside
\* the unreserved set become a percent code, the others stay
encodePlain(c) == c
encodeChar(c) ==
  CASE c = " " -> "+"
    [] c = "&" -> "%26"
    [] c = "=" -> "%3D"
    [] c = "+" -> "%2B"
    [] c = "%" -> "%25"
    [] c = "#" -> "%23"
    [] c = "?" -> "%3F"
    [] OTHER -> c

RECURSIVE encode(_)
encode(s) == IF s = "" THEN "" ELSE encodeChar(Head(s)) \o encode(Tail(s))

\* the percent codes of the characters used
PercentCodes == {"26", "3D", "2B", "25", "23", "3F", "20"}
percentDecoded(h) ==
  CASE h = "26" -> "&"
    [] h = "3D" -> "="
    [] h = "2B" -> "+"
    [] h = "25" -> "%"
    [] h = "23" -> "#"
    [] h = "3F" -> "?"
    [] OTHER -> " "

\* the parser's decoding: "+" is a space, a percent code its character, and
\* a "%" that starts no code stays
RECURSIVE decode(_)
decode(s) ==
  IF s = "" THEN ""
  ELSE IF Head(s) = "+" THEN " " \o decode(Tail(s))
  ELSE IF Head(s) = "%" /\ Len(s) >= 3 /\ SubSeq(s, 2, 3) \in PercentCodes
    THEN percentDecoded(SubSeq(s, 2, 3)) \o decode(SubSeq(s, 4, Len(s)))
  ELSE Head(s) \o decode(Tail(s))

\* position of the first c in s, 0 when there is none
RECURSIVE IndexOf(_, _)
IndexOf(s, c) ==
  IF s = "" THEN 0
  ELSE IF Head(s) = c THEN 1
  ELSE LET i == IndexOf(Tail(s), c) IN IF i = 0 THEN 0 ELSE i + 1

Before(s, c) == IF IndexOf(s, c) = 0 THEN s ELSE SubSeq(s, 1, IndexOf(s, c) - 1)
After(s, c) == IF IndexOf(s, c) = 0 THEN "" ELSE SubSeq(s, IndexOf(s, c) + 1, Len(s))

RECURSIVE Split(_, _)
Split(s, c) ==
  IF IndexOf(s, c) = 0 THEN <<s>> ELSE <<Before(s, c)>> \o Split(After(s, c), c)

\* l.64: new URLSearchParams(search), a list of name-value pairs
URLSearchParams(search) ==
  LET query == IF search # "" /\ Head(search) = "?" THEN Tail(search) ELSE search
      parts == SelectSeq(Split(query, "&"), LAMBDA part : part # "")
  IN [i \in 1..Len(parts) |->
        [name |-> decode(Before(parts[i], "=")), value |-> decode(After(parts[i], "="))]]

\* params.get(name): the value of the first pair of that name, or null
NoParam == [has |-> FALSE, value |-> ""]
get(params, name) ==
  IF \E i \in 1..Len(params) : params[i].name = name
    THEN LET first == CHOOSE i \in 1..Len(params) :
                        /\ params[i].name = name
                        /\ \A j \in 1..(i - 1) : params[j].name # name
         IN [has |-> TRUE, value |-> params[first].value]
    ELSE NoParam

\* searchParams.set(name, value): the first pair of that name takes the
\* value and the other pairs of that name go; with no such pair, one is added
set(params, name, value) ==
  IF \E i \in 1..Len(params) : params[i].name = name
    THEN LET first == CHOOSE i \in 1..Len(params) :
                        /\ params[i].name = name
                        /\ \A j \in 1..(i - 1) : params[j].name # name
             put == [i \in 1..Len(params) |->
                       IF i = first THEN [name |-> name, value |-> value]
                       ELSE IF params[i].name = name THEN [name |-> "", value |-> ""]
                       ELSE params[i]]
         IN SelectSeq(put, LAMBDA pair : pair.name # "")
    ELSE Append(params, [name |-> name, value |-> value])

\* the serialisation of the pairs
RECURSIVE serialize(_)
serialize(params) ==
  IF params = <<>> THEN ""
  ELSE encode(params[1].name) \o "=" \o encode(params[1].value)
         \o (IF Len(params) = 1 THEN "" ELSE "&" \o serialize(Tail(params)))

\* l.377: new URL(href), its parts: what precedes the query, the query
\* pairs, the fragment
newURL(href) ==
  [base |-> Before(Before(href, "#"), "?"),
   searchParams |-> URLSearchParams(After(Before(href, "#"), "?")),
   hash |-> After(href, "#")]

\* url.toString()
toString(url) ==
  url.base \o (IF url.searchParams = <<>> THEN "" ELSE "?" \o serialize(url.searchParams))
           \o (IF url.hash = "" THEN "" ELSE "#" \o url.hash)

\* window.location.search of a window opened at href
locationSearch(href) ==
  IF IndexOf(Before(href, "#"), "?") = 0 THEN "" ELSE "?" \o After(Before(href, "#"), "?")

\* l.65, l.69-71: the role of a session opened at href
roleOf(href) ==
  LET roleParam == get(URLSearchParams(locationSearch(href)), "view")
  IN IF roleParam.has /\ roleParam.value \in {"player", "owner"}
       THEN roleParam.value ELSE "owner"

\* l.67, l.72: its room, roomFromUrl || nanoid(6)
roomOf(href, nanoid) ==
  LET roomFromUrl == get(URLSearchParams(locationSearch(href)), "room")
  IN IF roomFromUrl.has /\ roomFromUrl.value # "" THEN roomFromUrl.value ELSE nanoid

\* l.377-379, l.383-385: the link to the player view of a room, made from
\* the address of the owner's window
playerLink(href, room) ==
  LET url == newURL(href)
  IN toString([url EXCEPT !.searchParams =
                 set(set(url.searchParams, "view", "player"), "room", room)])

\* addresses a window may be opened at
PlainLocations ==
  {"https://h/", "https://h/?room=Y", "https://h/?json=u&room=p%26q%3Dr",
   "https://h/?room=a+b#t", "https://h/?room="}
Locations ==
  PlainLocations \cup
    {"https://h/?view=owner&room=X&room=Y", "https://h/?view=player&room=Y",
     "https://h/?view=x"}

\* the addresses this session may have been opened at
Here == {href \in Locations :
           /\ roleOf(href) = role
           /\ roomOf(href, roomId) = roomId}

\* l.376-381, behind the owner's header (l.407)
openPlayer(href) ==
  /\ role = "owner"
  /\ href \in Here
  /\ Handler
  /\ NoRender
  /\ UNCHANGED <<chan, loads>>
  /\ TraceNotice("openPlayer", playerLink(href, roomId), Same)

\* l.382-388
copyPlayerLink(href) ==
  /\ role = "owner"
  /\ href \in Here
  /\ Handler
  /\ UNCHANGED <<chan, loads>>
  /\ \E showing \in BOOLEAN :
       LET u == Notice(Same, "Link de participante copiado", showing)
       IN Render(u) /\ TraceNotice("copyPlayerLink", playerLink(href, roomId), u)

LinkOps == {"openPlayer", "copyPlayerLink"}

\* the rooms of the sessions opened at these addresses, and the player
\* links their owners can produce
LinkRooms == Rooms \cup {roomOf(href, "X") : href \in Locations}
PlayerLinks == {playerLink(href, room) : href \in Locations, room \in LinkRooms}

\* the addresses this session may have been opened at, player links included
Opened == {href \in Locations \cup PlayerLinks :
             /\ roleOf(href) = role
             /\ roomOf(href, roomId) = roomId}

\* l.197-198: the address has a json parameter that is not empty
jsonParam(href) ==
  LET p == get(URLSearchParams(locationSearch(href)), "json")
  IN p.has /\ p.value # ""

\* l.62-120: a window is opened at href, the link the last step produced or
\* an address typed, and the model follows the App constructed there
App(href, nanoid) ==
  /\ href \in Locations \/ (lastOp.op \in LinkOps /\ href = lastOp.arg)
  /\ nanoid \in Rooms
  /\ role' = roleOf(href)
  /\ roomId' = roomOf(href, nanoid)
  /\ mounted' = "constructed"
  /\ items' = <<>>
  /\ idx' = 0
  /\ running' = FALSE
  /\ finished' = FALSE
  /\ seconds' = defaultSeconds
  /\ joined' = FALSE
  /\ roomChannelRef' = FALSE
  /\ chan' = "none"
  /\ sinceLastSent' = 0
  /\ timerOn' = FALSE
  /\ listeners' = NoListeners
  /\ changed' = {}
  /\ loads' = {}
  /\ UNCHANGED <<supabase, bc, setItemThrows, defaultSeconds>>
  /\ lastOp' = Op("App", href)
  /\ lastEnv' = NoEnv
  /\ out' = <<>>
  /\ flushed' = FALSE
  /\ snack' = ""
  /\ UNCHANGED proxy

\* sessions opened from links: owners that hand out the player link and
\* the sessions opened at it
NextLinks ==
  \/ \E href \in Opened : Mount(jsonParam(href))
  \/ \E res \in GameLoads : loadFromUrl(res, TRUE)
  \/ Effects
  \/ Elapse
  \/ loadFromFileCall
  \/ \E res \in FullLoad : loadFromFile(res)
  \/ \E href \in Locations : openPlayer(href)
  \/ \E href \in Locations : copyPlayerLink(href)
  \/ \E href \in Locations \cup PlayerLinks, nanoid \in Rooms : App(href, nanoid)

SpecLinks == InitOwnerAlone /\ [][NextLinks]_vars

----------------------------------------------------------------------------
(* C26 *)

(* C26. A session opened at the player link an owner of room R produced is *)
(* a player session of room R, and a session opened at an address with no  *)
(* view parameter is an owner session.                                     *)
C26_PlayerLinkRoundTrips ==
  [][lastOp'.op = "App" =>
       /\ (lastOp.op \in LinkOps /\ lastOp'.arg = lastOp.arg)
            => (role' = "player" /\ roomId' = roomId)
       /\ lastOp'.arg \in PlainLocations => role' = "owner"]_vars

\* a player session has been opened at the link of an owner whose room has
\* characters the link must escape
C26_Witness ==
  /\ lastOp.op = "App"
  /\ lastOp.arg = "https://h/?json=u&room=p%26q%3Dr&view=player"
  /\ role = "player"
  /\ roomId = "p&q=r"


----------------------------------------------------------------------------
(* C27 *)

\* an owner session that loads a bank, starts the countdown and lets it
\* run: React flushes the effects of every commit, the clock advances and
\* the interval calls back, while nothing obliges the owner to act
NextOwnerCountdown ==
  \/ Mount(FALSE)
  \/ Effects
  \/ \E status \in ChannelStatuses : subscribeCallback(status)
  \/ Elapse
  \/ loadFromFileCall
  \/ \E res \in GameLoads : loadFromFile(res)
  \/ start
  \/ tick

InitOwnerCountdown == InitOwner /\ LocalTransportsWork
SpecOwnerCountdown ==
  /\ InitOwnerCountdown
  /\ [][NextOwnerCountdown]_vars
  /\ WF_vars(Effects)
  /\ SF_vars(Elapse)
  /\ WF_vars(tick)

\* the countdown has just expired in a session that joined the channel
ExpiredWhileJoined == role = "owner" /\ joined /\ roomChannelRef /\ ExpiryRan

\* the step sent a finished, not running snapshot on the network channel
FinishedSentOnNetwork ==
  \E i \in 1..Len(out) :
    out[i].via = "net" /\ out[i].m.finished /\ ~out[i].m.running

\* the owner acted, or a load the owner had started came back
OwnerActed == lastOp.op \in {"call", "start", "loadFromFile"}

(* C27. When the owner's countdown expires while the network channel is    *)
(* joined, a snapshot with finished true and running false is eventually   *)
(* accepted for a send on the network channel, unless the owner acts       *)
(* again.                                                                  *)
C27_FinishedReachesNetwork ==
  ExpiredWhileJoined ~> (FinishedSentOnNetwork \/ OwnerActed)


----------------------------------------------------------------------------
(* C28 *)

\* the effects of the owner's last commit have all run, in a joined session
Published ==
  /\ role = "owner" /\ joined
  /\ mounted = "mounted"
  /\ flushed /\ changed = {}

\* the last message of the sequence o
Last(o) == o[Len(o)]

\* the envelope e carries the owner's room and its current state
Current(e) == e.m.roomId = roomId /\ Payload(e.m) = Snapshot

(* C28, as stated.  Once the effects of a joined owner's commit have all    *)
(* run, the envelope posted last on the BroadcastChannel and the one        *)
(* written last to the storage slot carry the owner's roomId and its        *)
(* current items, idx, seconds, running and finished.                      *)
C28_BothLocalEnvelopesCurrent ==
  Published =>
    /\ Via(out, "bc") # <<>> /\ Current(Last(Via(out, "bc")))
    /\ Via(out, "storage") # <<>> /\ Current(Last(Via(out, "storage")))

(* C28, amended.  Once the effects of a joined owner's commit have all run, *)
(* on each local transport that works the envelope sent last carries the   *)
(* owner's roomId and its current items, idx, seconds, running and         *)
(* finished, and is an envelope that the handler of a player of that room  *)
(* applies: the post on the BroadcastChannel when the window has           *)
(* BroadcastChannel, the value of the storage slot when the write does not *)
(* throw.  Nothing is posted in a window without BroadcastChannel, and     *)
(* the slot keeps its earlier value when the write throws.                 *)
C28_LastLocalEnvelopeIsCurrent ==
  Published =>
    /\ IF bc
         THEN /\ Via(out, "bc") # <<>>
              /\ Current(Last(Via(out, "bc")))
              /\ ~MsgRejected(TRUE, Last(Via(out, "bc")).m)
              /\ Last(Via(out, "bc")).key = CHANNEL
         ELSE Via(out, "bc") = <<>>
    /\ IF ~setItemThrows
         THEN /\ Via(out, "storage") # <<>>
              /\ Current(Last(Via(out, "storage")))
              /\ StorageAccepted(Last(Via(out, "storage")).key, TRUE,
                                 Last(Via(out, "storage")).m)
         ELSE Via(out, "storage") = <<>>

\* the flush after the expiry's re-render has run in a window whose storage
\* refuses the write: the envelope posted last on the BroadcastChannel
\* carries the finished game, and nothing was written
C28_Witness ==
  /\ Published
  /\ lastOp.arg = "effects"
  /\ finished /\ ~running
  /\ Len(items) = MaxItems
  /\ bc /\ setItemThrows
  /\ Via(out, "bc") # <<>>
  /\ Last(Via(out, "bc")).m.finished
  /\ Via(out, "storage") = <<>>


----------------------------------------------------------------------------
(* C29 *)

\* the replica of a session that has applied nothing (l.108-120)
InitialSnapshot ==
  [items |-> <<>>, idx |-> 0, seconds |-> defaultSeconds,
   running |-> FALSE, finished |-> FALSE]

(* C29. Between two steps a player's replica is the initial state or the   *)
(* complete payload of one message it was delivered: its five fields never *)
(* hold values of two different messages.                                  *)
C29_ReplicaIsOnePayload ==
  role = "player" => (Snapshot = InitialSnapshot \/ Snapshot \in InPayloads)

\* a player that held the payload of one envelope has applied another that
\* differs from it in every field but items
C29_Witness ==
  /\ role = "player"
  /\ lastOp.op = "onStorage"
  /\ Snapshot = PayB
  /\ {"idx", "seconds", "finished"} \subseteq changed


----------------------------------------------------------------------------
(* C30 *)

Answered == {"bien", "mal"}

(* C30. A call of mark changes at most the item at idx, and only when that *)
(* item is pendiente or pasada: an item marked bien or mal is not changed  *)
(* by mark again, so the counts of bien and mal do not change for it.      *)
C30_AnsweredItemNotRemarked ==
  [][(role = "owner" /\ lastOp'.op = "mark") =>
       /\ Len(items') = Len(items)
       /\ \A i \in 1..Len(items) :
            (i # idx + 1 \/ items[i].status \in Answered) => items'[i] = items[i]]_vars


----------------------------------------------------------------------------
(* C31 *)

\* an owner session with the countdown and everything that can interrupt
\* it.  React runs the effects of a commit some time after the commit.  The
\* callback of setInterval (l.212) is called once the interval has stayed
\* registered for a second, and an interval cleared before that (l.213)
\* never calls back: a tick is owed only while the interval stays registered.
NextOwnerTimer ==
  \/ Mount(FALSE)
  \/ Effects
  \/ Elapse
  \/ Teardown
  \/ \E callback \in Callbacks : afterUnmount(callback)
  \/ loadFromFileCall
  \/ \E res \in GameLoads : loadFromFile(res)
  \/ start
  \/ pause
  \/ reset
  \/ \E delta \in AdjustDeltas : adjustTimer(delta)
  \/ \E str \in TimerInputs : applyTimerInput(str)
  \/ tick

SpecOwnerTimer ==
  /\ InitOwnerAlone
  /\ [][NextOwnerTimer]_vars
  /\ WF_vars(Effects)
  /\ WF_vars(tick)

\* the steps that stop or restart a countdown
InterruptOps ==
  {"pause", "reset", "adjustTimer", "applyTimerInput", "loadFromUrl",
   "loadFromFile", "teardown"}

CountingDown == role = "owner" /\ mounted = "mounted" /\ running /\ seconds > 0
Expired == seconds = 0 /\ ~running /\ finished

(* C31. Countdown liveness.  An owner that is running with seconds > 0     *)
(* eventually has seconds = 0, not running and finished, unless a pause, a *)
(* reset, a timer adjustment, a bank load or the teardown occurs; every    *)
(* tick happens in a running, unfinished game, never in a paused or        *)
(* finished one, and takes exactly 1 from a positive seconds.              *)
C31_CountdownExpires ==
  /\ CountingDown ~> (Expired \/ lastOp.op \in InterruptOps)
  /\ [][(mounted = "mounted" /\ lastOp'.op = "tick") =>
          /\ running /\ ~finished
          /\ seconds > 0 => seconds' = seconds - 1
          /\ UNCHANGED <<items, idx, running, finished>>]_vars


----------------------------------------------------------------------------
(* C32 *)

\* sessions of either role in which reset is called: an owner that loads,
\* sets the timer, plays and lets the countdown run, and a player that is
\* delivered snapshots
NextReset ==
  \/ Mount(FALSE)
  \/ Effects
  \/ Elapse
  \/ loadFromFileCall
  \/ \E res \in FullLoad : loadFromFile(res)
  \/ mark("bien")
  \/ applyTimerInput(<<Num(0), Num(2)>>)
  \/ start
  \/ tick
  \/ reset
  \/ \E d \in Deliveries : onMsg(d.present, d.m)

InitReset == Init /\ roomId = "X" /\ ~supabase /\ LocalTransportsWork
SpecReset == InitReset /\ [][NextReset]_vars

(* C32. A reset by the owner, from any state, leaves every item pendiente  *)
(* with its letter, rule, prompt and answer and the bank's length as they  *)
(* were, idx 0, seconds equal to defaultSeconds, not running and not       *)
(* finished; a reset in a player session changes none of the five fields.  *)
C32_ResetRestoresStart ==
  [][(mounted = "mounted" /\ lastOp'.op = "reset") =>
       IF role = "owner"
         THEN /\ Len(items') = Len(items)
              /\ \A i \in 1..Len(items) :
                   /\ items'[i].status = "pendiente"
                   /\ items'[i].letter = items[i].letter
                   /\ items'[i].rule = items[i].rule
                   /\ items'[i].prompt = items[i].prompt
                   /\ items'[i].answer = items[i].answer
              /\ idx' = 0
              /\ seconds' = defaultSeconds
              /\ ~running'
              /\ ~finished'
         ELSE UNCHANGED game]_vars

\* the reset that does not: the countdown reached 0 in a commit whose
\* effects were pending when reset was called, so the expiry effect ran
\* ahead of the reset's render and its setRunning(false), setFinished(true)
\* (l.218-219) were applied after the calls of reset (l.359-360)
C32_ResetAfterPendingExpiry ==
  /\ role = "owner"
  /\ lastOp.op = "reset"
  /\ flushed
  /\ finished /\ ~running
  /\ idx = 0 /\ seconds = defaultSeconds


----------------------------------------------------------------------------
(* The proxy function, api/fetch-json.ts *)

\* req.query.url: no url parameter, one value, or several (an array)
Queries ==
  {<<>>, <<"">>, <<"ftp://h/x">>, <<"http:/h/x">>, <<"xhttp://h/x">>,
   <<"http://h/x">>, <<"https://h/x">>, <<"HTTPS://h/x">>,
   <<"https://h/x", "ftp://h/y">>}

\* Array.prototype.join(","), which String() applies to an array
RECURSIVE join(_)
join(values) ==
  IF values = <<>> THEN ""
  ELSE IF Len(values) = 1 THEN values[1]
  ELSE values[1] \o "," \o join(Tail(values))

\* l.5: String(req.query.url || ''); an array is truthy
String(q) == IF q = <<>> THEN "" ELSE join(q)

\* the i flag of the regular expression, on the letters it names
toLowerCase(c) ==
  CASE c = "H" -> "h" [] c = "T" -> "t" [] c = "P" -> "p" [] c = "S" -> "s"
    [] OTHER -> c

RECURSIVE lowered(_)
lowered(s) == IF s = "" THEN "" ELSE toLowerCase(Head(s)) \o lowered(Tail(s))

startsWith(s, prefix) == Len(s) >= Len(prefix) /\ SubSeq(s, 1, Len(prefix)) = prefix

\* test with the i flag of the regular expression left out
testCaseSensitive(raw) == startsWith(raw, "http://") \/ startsWith(raw, "https://")

\* l.9: /^https?:\/\//i.test(raw)
test(raw) == startsWith(lowered(raw), "http://") \/ startsWith(lowered(raw), "https://")

\* String.prototype.includes
RECURSIVE includes(_, _)
includes(s, part) ==
  IF Len(s) < Len(part) THEN FALSE
  ELSE startsWith(s, part) \/ includes(Tail(s), part)

\* JSON.parse on the texts used: the value, written canonically, or a throw
JSONparse(text) ==
  CASE text = " [ ] " -> [ok |-> TRUE, value |-> "[]"]
    [] text = "{\"a\": 1}" -> [ok |-> TRUE, value |-> "{\"a\":1}"]
    [] OTHER -> [ok |-> FALSE, value |-> ""]

\* what fetch settles with: a rejection, or a response with its status,
\* content-type header ("" when there is none), body text, and whether
\* reading the body rejects
Response(status, ct, text, readFails) ==
  [throws |-> FALSE, status |-> status, ct |-> ct, text |-> text, readFails |-> readFails]
Rejection == [NoUpstream EXCEPT !.throws = TRUE]
ContentTypes == {"application/json; charset=utf-8", "text/plain", ""}
Texts == {" [ ] ", "{\"a\": 1}", "<html>"}
Upstreams ==
  {Rejection, Response(404, "text/plain", "<html>", FALSE),
   Response(503, "application/json; charset=utf-8", " [ ] ", FALSE)}
    \cup {Response(200, ct, text, readFails) :
            ct \in ContentTypes, text \in Texts, readFails \in BOOLEAN}

\* r.ok
ok(r) == r.status >= 200 /\ r.status <= 299

\* res.status(n).json(body)
Answer(status, body) == [status |-> status, body |-> body]

\* the function is invoked with a request
request(q) ==
  /\ pc \in {"idle", "done"}
  /\ pc' = "started"
  /\ queryUrl' = q
  /\ upstream' = NoUpstream
  /\ fetches' = 0
  /\ responses' = <<>>
  /\ UNCHANGED app

\* l.5-13: up to the call of fetch
validate ==
  /\ pc = "started"
  /\ LET raw == String(queryUrl)
     IN IF raw = ""
          THEN /\ responses' = Append(responses, Answer(400, "Falta ?url="))
               /\ pc' = "done"
               /\ UNCHANGED fetches
        ELSE IF ~test(raw)
          THEN /\ responses' = Append(responses, Answer(400, "URL invalida"))
               /\ pc' = "done"
               /\ UNCHANGED fetches
        ELSE /\ fetches' = fetches + 1
             /\ pc' = "fetch"
             /\ UNCHANGED responses
  /\ UNCHANGED <<queryUrl, upstream, app>>

\* l.13-14, l.33-35: fetch settles with r
fetchSettles(r) ==
  /\ pc = "fetch"
  /\ upstream' = r
  /\ IF r.throws
       THEN /\ responses' = Append(responses, Answer(500, "error"))
            /\ pc' = "done"
     ELSE IF ~ok(r)
       THEN /\ responses' = Append(responses, Answer(r.status, "HTTP"))
            /\ pc' = "done"
     ELSE /\ pc' = "body"
          /\ UNCHANGED responses
  /\ UNCHANGED <<queryUrl, fetches, app>>

\* l.17-35: the body is read and parsed
bodySettles ==
  /\ pc = "body"
  /\ LET parsed == JSONparse(upstream.text)
         thrown == upstream.readFails \/ ~parsed.ok
     IN responses' =
          Append(responses,
                 IF ~includes(upstream.ct, "application/json")
                   THEN (IF thrown THEN Answer(415, "El recurso no es JSON")
                                   ELSE Answer(200, parsed.value))
                   ELSE (IF thrown THEN Answer(500, "error")
                                   ELSE Answer(200, parsed.value)))
  /\ pc' = "done"
  /\ UNCHANGED <<queryUrl, upstream, fetches, app>>

NextProxy ==
  \/ \E q \in Queries : request(q)
  \/ validate
  \/ \E r \in Upstreams : fetchSettles(r)
  \/ bodySettles

InitProxy == InitOwner /\ ~supabase
SpecProxy == InitProxy /\ [][NextProxy]_vars


----------------------------------------------------------------------------
(* C33 *)

\* the url parameter is present and begins with http:// or https://, in
\* any case of the letters
Fetchable ==
  /\ queryUrl # <<>>
  /\ \/ /\ Len(String(queryUrl)) >= 7
        /\ lowered(SubSeq(String(queryUrl), 1, 7)) = "http://"
     \/ /\ Len(String(queryUrl)) >= 8
        /\ lowered(SubSeq(String(queryUrl), 1, 8)) = "https://"

\* the body of the upstream response is read and is JSON
BodyIsJson == ~upstream.readFails /\ JSONparse(upstream.text).ok

\* the upstream response declares JSON
DeclaredJson == includes(upstream.ct, "application/json")

\* what holds of every request whatever the body: fetch is called once, and
\* only for a fetchable url; there is never more than one response; a
\* finished request has one, which is 400 when nothing was fetched, 500
\* when fetch threw, the upstream's status when that is not OK
AnsweredOnce ==
  /\ fetches > 0 => (Fetchable /\ fetches = 1)
  /\ (pc \in {"fetch", "body"} \/ (pc = "done" /\ Fetchable)) => fetches = 1
  /\ Len(responses) <= 1
  /\ pc = "done" =>
       /\ Len(responses) = 1
       /\ ~Fetchable => responses[1].status = 400
       /\ (Fetchable /\ upstream.throws) => responses[1].status = 500
       /\ (Fetchable /\ ~upstream.throws /\ ~ok(upstream))
            => responses[1].status = upstream.status

\* the request is finished and its upstream response was OK
BodyAnswered == pc = "done" /\ Fetchable /\ ~upstream.throws /\ ok(upstream)

(* C33, as stated.  The proxy fetches only a url that is present and       *)
(* begins with http:// or https://, answers 400 otherwise, and answers     *)
(* every request once: the upstream's non-OK status, 500 on an exception,  *)
(* 415 when the body is not JSON, 200 with the parsed JSON otherwise.      *)
C33_NonJsonBodyAnswers415 ==
  /\ AnsweredOnce
  /\ BodyAnswered =>
       IF upstream.readFails THEN responses[1].status \in {415, 500}
       ELSE IF ~JSONparse(upstream.text).ok THEN responses[1].status = 415
       ELSE responses[1] = Answer(200, JSONparse(upstream.text).value)

(* C33, amended.  The same, except that a body that is not JSON is         *)
(* answered 415 only when the upstream's content-type does not contain     *)
(* application/json, and 500 when it does; a body that cannot be read is   *)
(* answered the same way.                                                  *)
C33_ProxyAnswersOnce ==
  /\ AnsweredOnce
  /\ BodyAnswered =>
       IF BodyIsJson
         THEN responses[1] = Answer(200, JSONparse(upstream.text).value)
         ELSE responses[1].status = (IF DeclaredJson THEN 500 ELSE 415)

\* an upstream that answered 200 and declared JSON sent a body that is not
\* JSON, and the request was answered 500
C33_Witness ==
  /\ BodyAnswered
  /\ queryUrl = <<"HTTPS://h/x">>
  /\ DeclaredJson
  /\ upstream.text = "<html>" /\ ~upstream.readFails
  /\ responses = <<Answer(500, "error")>>

============================================================================
